---- MODULE Spec2Model ----
(***************************************************************************)
(* Receipt OCR service: fusion of OCR detections and heuristic extraction  *)
(* of title, date, amount and currency (backend/ocr_service/app.py).       *)
(*                                                                         *)
(* Texts are sequences of one-character strings.  The regular expressions  *)
(* of the source are kept as pattern terms and run by a backtracking       *)
(* matcher that yields the alternatives in the priority order of Python's  *)
(* re module (leftmost start, greedy repetition, first alternative first). *)
(* Amounts are counted in hundredths, confidences of detections in         *)
(* hundredths, scores of amount candidates in thousandths (see AddTenth).   *)
(***************************************************************************)
EXTENDS Integers, Sequences, FiniteSets, TLC

\* ------------------------------------------------------------------------
\* Characters
\* ------------------------------------------------------------------------
UpperSeq ==
    <<"A","B","C","D","E","F","G","H","I","J","K","L","M",
      "N","O","P","Q","R","S","T","U","V","W","X","Y","Z">>

LowerSeq ==
    <<"a","b","c","d","e","f","g","h","i","j","k","l","m",
      "n","o","p","q","r","s","t","u","v","w","x","y","z">>

UpperLetters == {UpperSeq[i] : i \in 1..26}

LowerLetters == {LowerSeq[i] : i \in 1..26}

DigitSeq == <<"0","1","2","3","4","5","6","7","8","9">>

Digits == {DigitSeq[i] : i \in 1..10}

\* str.isspace / regex \s
Whitespace == {" ", "\t"}

\* regex \w
WordChars == UpperLetters \cup LowerLetters \cup Digits \cup {"_"}

CurrencySymbols == {"₹", "$", "€", "£", "¥"}

LowerOf == [c \in UpperLetters |-> LowerSeq[CHOOSE i \in 1..26 : UpperSeq[i] = c]]

\* str.lower on one character
LowerChar(c) == IF c \in UpperLetters THEN LowerOf[c] ELSE c

\* str.lower
Lower(s) == [i \in 1..Len(s) |-> LowerChar(s[i])]

\* ------------------------------------------------------------------------
\* Strings
\* ------------------------------------------------------------------------
RECURSIVE LStrip(_)
LStrip(s) ==
    IF s # <<>> /\ s[1] \in Whitespace THEN LStrip(Tail(s)) ELSE s

RECURSIVE RStrip(_)
RStrip(s) ==
    IF s # <<>> /\ s[Len(s)] \in Whitespace
    THEN RStrip(SubSeq(s, 1, Len(s) - 1))
    ELSE s

\* str.strip
Strip(s) == RStrip(LStrip(s))

\* "sub in s"
Contains(s, sub) ==
    \E i \in 1..(Len(s) - Len(sub) + 1) : SubSeq(s, i, i + Len(sub) - 1) = sub

\* str.isdigit
IsDigitStr(s) == s # <<>> /\ \A i \in 1..Len(s) : s[i] \in Digits

\* len(s.split()): the number of maximal runs of non-whitespace characters
WordCount(s) ==
    Cardinality({i \in 1..Len(s) :
        /\ s[i] \notin Whitespace
        /\ (i = 1 \/ s[i - 1] \in Whitespace)})

\* str.zfill(2)
ZFill2(s) ==
    IF Len(s) >= 2 THEN s
    ELSE IF Len(s) = 1 THEN <<"0">> \o s
    ELSE <<"0", "0">>

DigitVal(c) == (CHOOSE i \in 1..10 : DigitSeq[i] = c) - 1

\* int(s) for a string of digits
RECURSIVE ToInt(_)
ToInt(s) ==
    IF s = <<>> THEN 0
    ELSE 10 * ToInt(SubSeq(s, 1, Len(s) - 1)) + DigitVal(s[Len(s)])

\* ------------------------------------------------------------------------
\* Pattern terms
\* ------------------------------------------------------------------------
Ch(S) == <<"set", S>>

NotCh(S) == <<"nset", S>>

AnyCh == <<"any">>

Bol == <<"bol">>

Eol == <<"eol">>

Cat(rs) == <<"cat", rs>>

Alt(rs) == <<"alt", rs>>

\* greedy repetition r{lo,hi}; hi = -1 is unbounded
Rep(r, lo, hi) == <<"rep", r, lo, hi>>

Opt(r) == Rep(r, 0, 1)

Star(r) == Rep(r, 0, -1)

Plus(r) == Rep(r, 1, -1)

\* capturing group number k
Grp(k, r) == <<"grp", k, r>>

\* negative lookahead (?!r)
NotAhead(r) == <<"nla", r>>

\* a literal word
Word(w) == <<"word", w>>

D == Ch(Digits)

\* ------------------------------------------------------------------------
\* Matcher: MatchNode gives every way pattern r matches s from state st,
\* in backtracking order; a state is the next position and the groups
\* captured so far (<<0, 0>> for a group that did not take part).
\* ------------------------------------------------------------------------
CharIn(c, S, ic) ==
    \/ c \in S
    \/ ic /\ \E d \in S : LowerChar(d) = LowerChar(c)

\* the literal word w stands at position i of s
WordAt(w, s, ic, i) ==
    /\ i + Len(w) - 1 <= Len(s)
    /\ \A j \in 1..Len(w) : CharIn(s[i + j - 1], {w[j]}, ic)

\* r is a pattern of exactly one character
SingleChar(r) == r[1] \in {"set", "nset", "any"}

\* the character c matches the one-character pattern r
CharMatches(r, c, ic) ==
    CASE r[1] = "set" -> CharIn(c, r[2], ic)
      [] r[1] = "nset" -> ~CharIn(c, r[2], ic)
      [] r[1] = "any" -> TRUE

\* the first of a non-empty set of positions
FirstPosition(ps) == CHOOSE j \in ps : \A k \in ps : j <= k

\* the run of characters from pos on that end at the first of stops
RunUpTo(stops, s, pos) ==
    IF stops = {} THEN Len(s) - pos + 1 ELSE FirstPosition(stops) - pos

\* the number of characters from pos on that match the one-character pattern r
RunLength(r, s, ic, pos) ==
    RunUpTo({j \in pos..Len(s) : ~CharMatches(r, s[j], ic)}, s, pos)

\* a run of n characters, cut at hi repetitions (-1: no limit)
Capped(n, hi) == IF hi = -1 \/ n < hi THEN n ELSE hi

\* greedy repetition of a one-character pattern: top, top - 1, ..., lo
\* repetitions, in that order
RepStates(st, lo, top) ==
    [j \in 1..(top - lo + 1) |-> [st EXCEPT !.pos = st.pos + top - j + 1]]

MatchCharRep(r, s, ic, st) ==
    RepStates(st, r[3], Capped(RunLength(r[2], s, ic, st.pos), r[4]))

\* the states of a group's body, with group k set to what the body consumed
WithGroup(inner, k, start) ==
    [j \in 1..Len(inner) |->
        [inner[j] EXCEPT !.caps[k] = <<start, inner[j].pos>>]]

RECURSIVE MatchNode(_, _, _, _)
RECURSIVE MatchEach(_, _, _, _, _)
RECURSIVE MatchCat(_, _, _, _, _)
RECURSIVE MatchAlt(_, _, _, _, _)
RECURSIVE MatchRep(_, _, _, _, _)
RECURSIVE MatchRepEach(_, _, _, _, _, _, _)

MatchEach(r, s, ic, states, j) ==
    IF j > Len(states) THEN <<>>
    ELSE MatchNode(r, s, ic, states[j]) \o MatchEach(r, s, ic, states, j + 1)

MatchCat(rs, k, s, ic, states) ==
    IF k > Len(rs) \/ states = <<>> THEN states
    ELSE MatchCat(rs, k + 1, s, ic, MatchEach(rs[k], s, ic, states, 1))

MatchAlt(rs, k, s, ic, st) ==
    IF k > Len(rs) THEN <<>>
    ELSE MatchNode(rs[k], s, ic, st) \o MatchAlt(rs, k + 1, s, ic, st)

MatchRepEach(r, n, s, ic, from, states, j) ==
    IF j > Len(states) THEN <<>>
    ELSE (IF states[j].pos > from
          THEN MatchRep(r, n, s, ic, states[j])
          ELSE <<>>)
         \o MatchRepEach(r, n, s, ic, from, states, j + 1)

MatchRep(r, n, s, ic, st) ==
    (IF r[4] = -1 \/ n < r[4]
     THEN MatchRepEach(r, n + 1, s, ic, st.pos,
                       MatchNode(r[2], s, ic, st), 1)
     ELSE <<>>)
    \o (IF n >= r[3] THEN <<st>> ELSE <<>>)

MatchNode(r, s, ic, st) ==
    CASE r[1] = "set" ->
            IF st.pos <= Len(s) /\ CharIn(s[st.pos], r[2], ic)
            THEN <<[st EXCEPT !.pos = @ + 1]>> ELSE <<>>
      [] r[1] = "nset" ->
            IF st.pos <= Len(s) /\ ~CharIn(s[st.pos], r[2], ic)
            THEN <<[st EXCEPT !.pos = @ + 1]>> ELSE <<>>
      [] r[1] = "word" ->
            IF WordAt(r[2], s, ic, st.pos)
            THEN <<[st EXCEPT !.pos = @ + Len(r[2])]>> ELSE <<>>
      [] r[1] = "any" ->
            IF st.pos <= Len(s)
            THEN <<[st EXCEPT !.pos = @ + 1]>> ELSE <<>>
      [] r[1] = "bol" -> IF st.pos = 1 THEN <<st>> ELSE <<>>
      [] r[1] = "eol" -> IF st.pos = Len(s) + 1 THEN <<st>> ELSE <<>>
      [] r[1] = "cat" -> MatchCat(r[2], 1, s, ic, <<st>>)
      [] r[1] = "alt" -> MatchAlt(r[2], 1, s, ic, st)
      [] r[1] = "rep" -> IF SingleChar(r[2]) THEN MatchCharRep(r, s, ic, st)
                         ELSE MatchRep(r, 0, s, ic, st)
      [] r[1] = "grp" -> WithGroup(MatchNode(r[3], s, ic, st), r[2], st.pos)
      [] r[1] = "nla" ->
            IF MatchNode(r[2], s, ic, st) = <<>> THEN <<st>> ELSE <<>>

NoMatch == [found |-> FALSE, start |-> 0, end |-> 0, groups |-> <<>>]

\* the match object of the first alternative: groups() as texts, <<>> for None
MatchObject(res, s, ng, i) ==
    IF res = <<>> THEN NoMatch
    ELSE [found  |-> TRUE,
          start  |-> i,
          end    |-> res[1].pos,
          groups |-> [k \in 1..ng |->
                        IF res[1].caps[k] = <<0, 0>> THEN <<>>
                        ELSE SubSeq(s, res[1].caps[k][1], res[1].caps[k][2] - 1)]]

MatchAt(r, s, ic, ng, i) ==
    MatchObject(MatchNode(r, s, ic, [pos |-> i, caps |-> [k \in 1..ng |-> <<0, 0>>]]),
                s, ng, i)

\* a cascade step: a if it found something, else b
OrElse(a, b) == IF a.found THEN a ELSE b

\* the leftmost match that starts at one of the positions lo..hi.  The
\* positions are tried from left to right; the range is halved instead of
\* walked, which keeps the evaluation shallow.
RECURSIVE SearchIn(_, _, _, _, _, _)
SearchIn(r, s, ic, ng, lo, hi) ==
    IF lo > hi THEN NoMatch
    ELSE IF lo = hi THEN MatchAt(r, s, ic, ng, lo)
    ELSE OrElse(SearchIn(r, s, ic, ng, lo, (lo + hi) \div 2),
                SearchIn(r, s, ic, ng, ((lo + hi) \div 2) + 1, hi))

\* re.search from position i on: the leftmost match
SearchFrom(r, s, ic, ng, i) == SearchIn(r, s, ic, ng, i, Len(s) + 1)

\* re.search(r, s)
Search(r, s, ic, ng) == SearchFrom(r, s, ic, ng, 1)

\* re.match(r, s): anchored at the start
Match(r, s, ic, ng) == MatchAt(r, s, ic, ng, 1)

\* re.finditer / re.findall: the non-overlapping matches, left to right
RECURSIVE FindIterFrom(_, _, _, _, _)
RECURSIVE FindIterAfter(_, _, _, _, _)
FindIterAfter(m, r, s, ic, ng) ==
    IF ~m.found THEN <<>>
    ELSE <<m>> \o FindIterFrom(r, s, ic, ng,
                               IF m.end > m.start THEN m.end ELSE m.end + 1)

FindIterFrom(r, s, ic, ng, i) ==
    FindIterAfter(SearchFrom(r, s, ic, ng, i), r, s, ic, ng)

FindIter(r, s, ic, ng) == FindIterFrom(r, s, ic, ng, 1)

\* ------------------------------------------------------------------------
\* normalize_text
\* ------------------------------------------------------------------------
\* re.sub(r'\s+', ' ', text)
RECURSIVE CollapseSpaces(_)
CollapseSpaces(s) ==
    IF s = <<>> THEN <<>>
    ELSE IF s[1] \in Whitespace
         THEN <<" ">> \o CollapseSpaces(LStrip(s))
         ELSE <<s[1]>> \o CollapseSpaces(Tail(s))

NormalizeKeep ==
    WordChars \cup Whitespace \cup CurrencySymbols
        \cup {":", ";", ".", ",", "-", "/", "%"}

\* re.sub(r'[^\w\s:;.,\-/$...%]', '', text)
DropOthers(s) == SelectSeq(s, LAMBDA c : c \in NormalizeKeep)

normalize_text(text) ==
    IF text = <<>> THEN <<>>
    ELSE Strip(DropOthers(CollapseSpaces(Lower(text))))

\* ------------------------------------------------------------------------
\* extract_title_enhanced
\* ------------------------------------------------------------------------
\* [:.\s-]
LabelSep == Ch({":", ".", "-"} \cup Whitespace)

TitleLabelPattern ==
    Cat(<<Alt(<<Word(<<"t","i","t","l","e">>),
                Word(<<"m","e","r","c","h","a","n","t">>),
                Word(<<"s","t","o","r","e">>),
                Word(<<"v","e","n","d","o","r">>),
                Word(<<"n","a","m","e">>)>>),
          Plus(LabelSep),
          Grp(1, Plus(AnyCh))>>)

TitleCompanyPattern ==
    Cat(<<Bol,
          Grp(1, Cat(<<NotAhead(Alt(<<Word(<<"d","a","t","e">>),
                                      Word(<<"a","m","o","u","n","t">>),
                                      Word(<<"t","o","t","a","l">>),
                                      Word(<<"i","n","v","o","i","c","e">>),
                                      Word(<<"r","e","c","e","i","p","t">>)>>)),
                       Rep(AnyCh, 3, 30)>>)),
          Eol>>)

CapWord == Cat(<<Ch(UpperLetters), Plus(Ch(LowerLetters))>>)

TitleProperNounPattern ==
    Cat(<<Bol,
          Grp(1, Cat(<<CapWord, Rep(Cat(<<Ch({" "}), CapWord>>), 1, 3)>>)),
          Eol>>)

title_patterns ==
    <<TitleLabelPattern, TitleCompanyPattern, TitleProperNounPattern>>

\* ^(title|merchant|store|name)\s*[:.-]?\s*
TitlePrefixPattern ==
    Cat(<<Bol,
          Grp(1, Alt(<<Word(<<"t","i","t","l","e">>),
                       Word(<<"m","e","r","c","h","a","n","t">>),
                       Word(<<"s","t","o","r","e">>),
                       Word(<<"n","a","m","e">>)>>)),
          Star(Ch(Whitespace)),
          Opt(Ch({":", ".", "-"})),
          Star(Ch(Whitespace))>>)

DropMatched(extracted, m) ==
    IF m.found THEN SubSeq(extracted, m.end, Len(extracted)) ELSE extracted

\* re.sub(TitlePrefixPattern, '', extracted, flags=re.IGNORECASE)
CleanTitle(extracted) ==
    DropMatched(extracted, Match(TitlePrefixPattern, extracted, TRUE, 1))

\* a cleaned title that is a single word under 4 characters is passed over
TitleRejected(cleaned) == WordCount(cleaned) = 1 /\ Len(cleaned) < 4

NoTitle == [found |-> FALSE, value |-> <<>>]

AcceptedTitle(cleaned) ==
    IF TitleRejected(cleaned) THEN NoTitle ELSE [found |-> TRUE, value |-> cleaned]

\* the title one pattern match returns, if it returns one
TitleFromMatch(m) ==
    IF m.found THEN AcceptedTitle(CleanTitle(Strip(m.groups[1]))) ELSE NoTitle

\* step n of the first pass, n = 1, 2, ...: the lines in rank order and,
\* for each line, the patterns in table order
TitleStep(results, n) ==
    TitleFromMatch(Search(title_patterns[((n - 1) % Len(title_patterns)) + 1],
                          results[((n - 1) \div Len(title_patterns)) + 1].text,
                          TRUE, 1))

\* first pass: the first of the steps lo..hi that returns a title
RECURSIVE TitleFirstPass(_, _, _)
TitleFirstPass(results, lo, hi) ==
    IF lo > hi THEN NoTitle
    ELSE IF lo = hi THEN TitleStep(results, lo)
    ELSE OrElse(TitleFirstPass(results, lo, (lo + hi) \div 2),
                TitleFirstPass(results, ((lo + hi) \div 2) + 1, hi))

StructuralKeywordPattern ==
    Alt(<<Word(<<"d","a","t","e">>),
          Word(<<"a","m","o","u","n","t">>),
          Word(<<"t","o","t","a","l">>),
          Word(<<"i","n","v","o","i","c","e">>),
          Word(<<"r","e","c","e","i","p","t">>),
          Word(<<"b","i","l","l">>),
          Word(<<"t","a","x">>),
          Word(<<"p","a","y","m","e","n","t">>),
          Word(<<"c","u","s","t","o","m","e","r">>)>>)

\* ^[A-Z][a-z]+(?:\s+[A-Z][a-z]+){0,3}$
ProperNamePattern ==
    Cat(<<Bol, CapWord,
          Rep(Cat(<<Plus(Ch(Whitespace)), CapWord>>), 0, 3),
          Eol>>)

BusinessSuffixPattern ==
    Alt(<<Word(<<"L","L","C">>),
          Word(<<"I","n","c">>),
          Word(<<"C","o","r","p">>),
          Word(<<"S","h","o","p">>),
          Word(<<"S","t","o","r","e">>),
          Word(<<"R","e","s","t","a","u","r","a","n","t">>),
          Word(<<"C","a","f","e">>),
          Word(<<"H","o","t","e","l">>)>>)

\* \d{1,2}[/.-]\d{1,2}
DateLikePattern ==
    Cat(<<Rep(D, 1, 2), Ch({"/", ".", "-"}), Rep(D, 1, 2)>>)

\* [$...]\s*\d+
AmountLikePattern ==
    Cat(<<Ch({"$", "€", "£", "¥", "₹"}), Star(Ch(Whitespace)), Plus(D)>>)

HasStructuralKeyword(text) == Search(StructuralKeywordPattern, text, TRUE, 0).found

IsProperName(text) == Match(ProperNamePattern, text, FALSE, 0).found

HasBusinessSuffix(text) == Search(BusinessSuffixPattern, text, TRUE, 0).found

IsFirstLineCandidate(text) ==
    /\ ~Search(DateLikePattern, text, FALSE, 0).found
    /\ ~Search(AmountLikePattern, text, FALSE, 0).found

\* second pass: merchant_name_candidates, in the order they are appended
RECURSIVE MerchantCandidates(_, _, _)
MerchantCandidates(results, i, acc) ==
    IF i > Len(results) THEN acc
    ELSE LET text == results[i].text
         IN  MerchantCandidates(results, i + 1,
               IF Len(text) < 3 \/ HasStructuralKeyword(text) THEN acc
               ELSE IF IsProperName(text)
                    THEN Append(acc, [text |-> text, score |-> 80])
               ELSE IF HasBusinessSuffix(text)
                    THEN Append(acc, [text |-> text, score |-> 70])
               ELSE IF acc = <<>> /\ IsFirstLineCandidate(text)
                    THEN Append(acc, [text |-> text, score |-> 50])
               ELSE acc)

\* candidates.sort(key=score, reverse=True)[0]: the first of the best score
BestCandidate(cands) ==
    IF cands = <<>> THEN NoTitle
    ELSE [found |-> TRUE,
          value |-> cands[CHOOSE j \in 1..Len(cands) :
                      /\ \A l \in 1..Len(cands) : cands[l].score <= cands[j].score
                      /\ \A l \in 1..(j - 1) : cands[l].score < cands[j].score].text]

\* variant: the fallback takes lines of two characters as well
RECURSIVE FirstMeaningfulLine_TwoChars(_, _)
FirstMeaningfulLine_TwoChars(results, i) ==
    IF i > Len(results) THEN NoTitle
    ELSE IF Len(results[i].text) >= 2 /\ ~IsDigitStr(results[i].text)
         THEN [found |-> TRUE, value |-> results[i].text]
         ELSE FirstMeaningfulLine_TwoChars(results, i + 1)

\* fallback: the first line of length >= 3 that is not all digits
RECURSIVE FirstMeaningfulLine(_, _)
FirstMeaningfulLine(results, i) ==
    IF i > Len(results) THEN NoTitle
    ELSE IF Len(results[i].text) >= 3 /\ ~IsDigitStr(results[i].text)
         THEN [found |-> TRUE, value |-> results[i].text]
         ELSE FirstMeaningfulLine(results, i + 1)

UntitledReceipt ==
    <<"U","n","t","i","t","l","e","d"," ","R","e","c","e","i","p","t">>

extract_title_enhanced(results) ==
    OrElse(TitleFirstPass(results, 1, Len(results) * Len(title_patterns)),
      OrElse(BestCandidate(MerchantCandidates(results, 1, <<>>)),
        OrElse(FirstMeaningfulLine(results, 1),
               [found |-> TRUE, value |-> UntitledReceipt]))).value

\* ------------------------------------------------------------------------
\* extract_date_enhanced
\* ------------------------------------------------------------------------
DateSep == Ch({"/", ".", "-"})

\* (\d{1,2})[/.-](\d{1,2})[/.-](20\d{2})
DayMonthYear20Pattern ==
    Cat(<<Grp(1, Rep(D, 1, 2)), DateSep, Grp(2, Rep(D, 1, 2)), DateSep,
          Grp(3, Cat(<<Ch({"2"}), Ch({"0"}), Rep(D, 2, 2)>>))>>)

\* (?:date|dt)[:.\s-]+
DateLabel ==
    Cat(<<Alt(<<Word(<<"d","a","t","e">>), Word(<<"d","t">>)>>), Plus(LabelSep)>>)

\* (?:jan|feb|...|dec)[a-z]*
MonthWord ==
    Cat(<<Alt(<<Word(<<"j","a","n">>), Word(<<"f","e","b">>),
                Word(<<"m","a","r">>), Word(<<"a","p","r">>),
                Word(<<"m","a","y">>), Word(<<"j","u","n">>),
                Word(<<"j","u","l">>), Word(<<"a","u","g">>),
                Word(<<"s","e","p">>), Word(<<"o","c","t">>),
                Word(<<"n","o","v">>), Word(<<"d","e","c">>)>>),
          Star(Ch(LowerLetters))>>)

\* [\s,]*
SpacesCommas == Star(Ch(Whitespace \cup {","}))

\* the pattern table with the number of groups of each pattern
date_patterns ==
    << [re |-> DayMonthYear20Pattern, ng |-> 3],
       [re |-> Cat(<<Grp(1, Rep(D, 2, 2)), DateSep, Grp(2, Rep(D, 1, 2)),
                     DateSep, Grp(3, Rep(D, 4, 4))>>), ng |-> 3],
       [re |-> Cat(<<Grp(1, Rep(D, 1, 1)), DateSep, Grp(2, Rep(D, 1, 2)),
                     DateSep, Grp(3, Rep(D, 4, 4))>>), ng |-> 3],
       [re |-> Cat(<<DateLabel, Grp(1, Rep(D, 1, 2)), DateSep,
                     Grp(2, Rep(D, 1, 2)), DateSep, Grp(3, Rep(D, 2, 4))>>),
        ng |-> 3],
       [re |-> Cat(<<DateLabel,
                     Grp(1, Cat(<<Rep(D, 1, 2), Star(Ch(Whitespace)), MonthWord,
                                  SpacesCommas, Rep(D, 2, 4)>>))>>),
        ng |-> 1],
       [re |-> Cat(<<Grp(1, Rep(D, 1, 2)), DateSep, Grp(2, Rep(D, 1, 2)),
                     DateSep, Grp(3, Rep(D, 2, 2))>>), ng |-> 3],
       [re |-> Cat(<<Grp(1, Rep(D, 4, 4)), DateSep, Grp(2, Rep(D, 1, 2)),
                     DateSep, Grp(3, Rep(D, 1, 2))>>), ng |-> 3],
       [re |-> Cat(<<Grp(1, Rep(D, 1, 2)), Star(Ch(Whitespace)), MonthWord,
                     SpacesCommas, Grp(2, Rep(D, 2, 4))>>), ng |-> 2],
       [re |-> Cat(<<MonthWord, Star(Ch(Whitespace)), Grp(1, Rep(D, 1, 2)),
                     SpacesCommas, Grp(2, Rep(D, 2, 4))>>), ng |-> 2] >>

\* month_map, in the insertion order of the dict
month_map ==
    << [abbr |-> <<"j","a","n">>, num |-> <<"0","1">>],
       [abbr |-> <<"f","e","b">>, num |-> <<"0","2">>],
       [abbr |-> <<"m","a","r">>, num |-> <<"0","3">>],
       [abbr |-> <<"a","p","r">>, num |-> <<"0","4">>],
       [abbr |-> <<"m","a","y">>, num |-> <<"0","5">>],
       [abbr |-> <<"j","u","n">>, num |-> <<"0","6">>],
       [abbr |-> <<"j","u","l">>, num |-> <<"0","7">>],
       [abbr |-> <<"a","u","g">>, num |-> <<"0","8">>],
       [abbr |-> <<"s","e","p">>, num |-> <<"0","9">>],
       [abbr |-> <<"o","c","t">>, num |-> <<"1","0">>],
       [abbr |-> <<"n","o","v">>, num |-> <<"1","1">>],
       [abbr |-> <<"d","e","c">>, num |-> <<"1","2">>] >>

\* f"{a.zfill(2)}/{b.zfill(2)}/{year}"
FormatDate(a, b, year) == ZFill2(a) \o <<"/">> \o ZFill2(b) \o <<"/">> \o year

\* if len(year) == 2: '20' + year if int(year) < 50 else '19' + year
ExpandYear(year) ==
    IF Len(year) = 2
    THEN (IF ToInt(year) < 50 THEN <<"2", "0">> ELSE <<"1", "9">>) \o year
    ELSE year

NoDate == [found |-> FALSE, value |-> <<>>]

\* variant: day and month are written in the order they were read
LabeledEuropeanDate_NoSwap(text, ms) ==
    IF /\ Contains(Lower(text), <<"d","a","t","e">>)
       /\ ms # <<>>
       /\ ToInt(ms[1].groups[1]) > 12 /\ ToInt(ms[1].groups[1]) <= 31
    THEN [found |-> TRUE,
          value |-> FormatDate(ms[1].groups[1], ms[1].groups[2], ms[1].groups[3])]
    ELSE NoDate

\* one line of the first check; ms are the D/M/20YY matches of the line
LabeledEuropeanDate(text, ms) ==
    IF /\ Contains(Lower(text), <<"d","a","t","e">>)
       /\ ms # <<>>
       /\ ToInt(ms[1].groups[1]) > 12 /\ ToInt(ms[1].groups[1]) <= 31
    THEN [found |-> TRUE,
          value |-> FormatDate(ms[1].groups[2], ms[1].groups[1], ms[1].groups[3])]
    ELSE NoDate

\* first check: a line with "date" whose first D/M/20YY has a day above 12
RECURSIVE DateLabeledEuropean(_, _)
DateLabeledEuropean(results, i) ==
    IF i > Len(results) THEN NoDate
    ELSE OrElse(LabeledEuropeanDate(results[i].text,
                    FindIter(DayMonthYear20Pattern, results[i].text, FALSE, 3)),
                DateLabeledEuropean(results, i + 1))

\* a D/M/20YY match read as day/month
DayFirstDate(m) ==
    IF m.found
    THEN [found |-> TRUE,
          value |-> FormatDate(m.groups[2], m.groups[1], m.groups[3])]
    ELSE NoDate

\* variant: the direct match always reads day/month
DirectDate_AlwaysEuropean(m) == DayFirstDate(m)

\* a D/M/20YY match read as day/month when the first number is above 12,
\* else as month/day
DirectDate(m) ==
    IF m.found
    THEN [found |-> TRUE,
          value |->
            IF /\ ToInt(m.groups[1]) > 12 /\ ToInt(m.groups[1]) <= 31
               /\ ToInt(m.groups[2]) <= 12
            THEN FormatDate(m.groups[2], m.groups[1], m.groups[3])
            ELSE FormatDate(m.groups[1], m.groups[2], m.groups[3])]
    ELSE NoDate

\* direct pattern match: the first line holding a D/M/20YY
RECURSIVE DateDirect(_, _)
DateDirect(results, i) ==
    IF i > Len(results) THEN NoDate
    ELSE OrElse(DirectDate(Search(DayMonthYear20Pattern, results[i].text, FALSE, 3)),
                DateDirect(results, i + 1))

\* force check: the same pattern, always read as day/month
RECURSIVE DateForce(_, _)
DateForce(results, i) ==
    IF i > Len(results) THEN NoDate
    ELSE OrElse(DayFirstDate(Search(DayMonthYear20Pattern, results[i].text, FALSE, 3)),
                DateForce(results, i + 1))

\* the first month abbreviation of month_map found in the lowered text
RECURSIVE FirstMonthIn(_, _)
FirstMonthIn(lowered, j) ==
    IF j > Len(month_map) THEN 0
    ELSE IF Contains(lowered, month_map[j].abbr) THEN j
    ELSE FirstMonthIn(lowered, j + 1)

\* three groups: numbers, read as day/month when the first is above 12
NumericDate(groups) ==
    IF /\ ToInt(groups[1]) > 12 /\ ToInt(groups[1]) <= 31
       /\ ToInt(groups[2]) <= 12
    THEN FormatDate(groups[2], groups[1], ExpandYear(groups[3]))
    ELSE FormatDate(groups[1], groups[2], ExpandYear(groups[3]))

\* two groups: a text month; j is the place in month_map of the first
\* abbreviation found in the line, 0 if there is none
TextMonthDate(groups, j) ==
    IF j = 0 THEN NoDate
    ELSE [found |-> TRUE,
          value |-> month_map[j].num \o <<"/">>
                      \o ZFill2(IF Match(Rep(D, 1, 2), groups[1], FALSE, 0).found
                                THEN groups[1] ELSE groups[2])
                      \o <<"/">>
                      \o ExpandYear(IF Len(groups[2]) >= 2
                                    THEN groups[2] ELSE groups[1])]

\* the date built from one match of a table pattern, if the branch returns
DateFromGroups(text, groups) ==
    IF Len(groups) = 3 THEN [found |-> TRUE, value |-> NumericDate(groups)]
    ELSE IF Len(groups) = 2 THEN TextMonthDate(groups, FirstMonthIn(Lower(text), 1))
    ELSE NoDate

TableDate(text, m) == IF m.found THEN DateFromGroups(text, m.groups) ELSE NoDate

TablePatternDate(text, pat) == TableDate(text, Search(pat.re, text, TRUE, pat.ng))

\* step n of the pattern table, n = 1, 2, ...: the lines in rank order and,
\* for each line, the patterns in table order
TableStep(results, n) ==
    TablePatternDate(results[((n - 1) \div Len(date_patterns)) + 1].text,
                     date_patterns[((n - 1) % Len(date_patterns)) + 1])

\* pattern table: the first of the steps lo..hi that returns a date
RECURSIVE DateFromTable(_, _, _)
DateFromTable(results, lo, hi) ==
    IF lo > hi THEN NoDate
    ELSE IF lo = hi THEN TableStep(results, lo)
    ELSE OrElse(DateFromTable(results, lo, (lo + hi) \div 2),
                DateFromTable(results, ((lo + hi) \div 2) + 1, hi))

\* direct_matches: every D/M/20YY of every line, in scan order
RECURSIVE DirectMatches(_, _)
DirectMatches(results, i) ==
    IF i > Len(results) THEN <<>>
    ELSE FindIter(DayMonthYear20Pattern, results[i].text, FALSE, 3)
            \o DirectMatches(results, i + 1)

\* final fallback: the first of direct_matches read as day/month, else ""
FirstDirectMatch(dm) ==
    IF dm # <<>> THEN DayFirstDate(dm[1]) ELSE [found |-> TRUE, value |-> <<>>]

extract_date_enhanced(results) ==
    OrElse(DateLabeledEuropean(results, 1),
      OrElse(DateDirect(results, 1),
        OrElse(DateForce(results, 1),
          OrElse(DateFromTable(results, 1, Len(results) * Len(date_patterns)),
                 FirstDirectMatch(DirectMatches(results, 1)))))).value

\* ------------------------------------------------------------------------
\* Stable sort by confidence, highest first
\* ------------------------------------------------------------------------
\* variant: x goes in front of the elements of equal confidence
RECURSIVE InsertByConfidence_TiesFirst(_, _)
InsertByConfidence_TiesFirst(sorted, x) ==
    IF sorted = <<>> THEN <<x>>
    ELSE IF sorted[1].confidence > x.confidence
         THEN <<sorted[1]>> \o InsertByConfidence_TiesFirst(Tail(sorted), x)
         ELSE <<x>> \o sorted

\* x goes behind every element whose confidence is not below its own
RECURSIVE InsertByConfidence(_, _)
InsertByConfidence(sorted, x) ==
    IF sorted = <<>> THEN <<x>>
    ELSE IF sorted[1].confidence >= x.confidence
         THEN <<sorted[1]>> \o InsertByConfidence(Tail(sorted), x)
         ELSE <<x>> \o sorted

\* list.sort(key=lambda x: x["confidence"], reverse=True)
RECURSIVE SortByConfidence(_)
SortByConfidence(seq) ==
    IF seq = <<>> THEN <<>>
    ELSE InsertByConfidence(SortByConfidence(SubSeq(seq, 1, Len(seq) - 1)),
                            seq[Len(seq)])

\* ------------------------------------------------------------------------
\* extract_amount_enhanced
\* ------------------------------------------------------------------------
currency_map ==
    << [key |-> <<"$">>, code |-> "USD"],
       [key |-> <<"€">>, code |-> "EUR"],
       [key |-> <<"£">>, code |-> "GBP"],
       [key |-> <<"¥">>, code |-> "JPY"],
       [key |-> <<"₹">>, code |-> "INR"],
       [key |-> <<"r","s">>, code |-> "INR"],
       [key |-> <<"r","u","p","e","e","s">>, code |-> "INR"] >>

InCurrencyMap(k) == \E j \in 1..Len(currency_map) : currency_map[j].key = k

CurrencyOf(k) ==
    currency_map[CHOOSE j \in 1..Len(currency_map) : currency_map[j].key = k].code

\* (?:amount|total|sum|price|cost|fee)
MoneyLabel ==
    Alt(<<Word(<<"a","m","o","u","n","t">>), Word(<<"t","o","t","a","l">>),
          Word(<<"s","u","m">>), Word(<<"p","r","i","c","e">>),
          Word(<<"c","o","s","t">>), Word(<<"f","e","e">>)>>)

\* [:\s.-]*
LabelGap == Star(LabelSep)

Sym == Ch(CurrencySymbols)

Spaces == Star(Ch(Whitespace))

\* \d+(?:[.,]\d{1,2})?
Num == Cat(<<Plus(D), Opt(Cat(<<Ch({".", ","}), Rep(D, 1, 2)>>))>>)

\* [Rr][Ss]\.?|[Rr]upees?\.?
RupeeWord ==
    Alt(<<Cat(<<Ch({"R", "r"}), Ch({"S", "s"}), Opt(Ch({"."}))>>),
          Cat(<<Ch({"R", "r"}), Word(<<"u","p","e","e">>), Opt(Ch({"s"})),
                Opt(Ch({"."}))>>)>>)

SLetter == Ch({"S", "s"})

\* <word>[^0-9]*(\d+)
WordThenDigits(w) == Cat(<<Word(w), Star(NotCh(Digits)), Grp(1, Plus(D))>>)

\* scores are in thousandths; see AddTenth
currency_patterns ==
    << [re |-> Cat(<<MoneyLabel, LabelGap, Grp(1, Sym), Spaces, Grp(2, Num)>>),
        ng |-> 2, score |-> 900],
       [re |-> Cat(<<MoneyLabel, LabelGap, Grp(1, Num), Spaces, Grp(2, Sym)>>),
        ng |-> 2, score |-> 900],
       [re |-> Cat(<<MoneyLabel, LabelGap, Grp(1, RupeeWord), Spaces,
                     Grp(2, Num)>>),
        ng |-> 2, score |-> 900],
       [re |-> Cat(<<MoneyLabel, LabelGap, SLetter, Spaces, Grp(1, Num)>>),
        ng |-> 1, score |-> 950],
       [re |-> Cat(<<SLetter, Spaces, Grp(1, Num)>>),
        ng |-> 1, score |-> 800],
       [re |-> WordThenDigits(<<"a","m","o","u","n","t">>),
        ng |-> 1, score |-> 900],
       [re |-> WordThenDigits(<<"t","o","t","a","l">>),
        ng |-> 1, score |-> 900],
       [re |-> WordThenDigits(<<"s","u","m">>),
        ng |-> 1, score |-> 900],
       [re |-> Cat(<<MoneyLabel, LabelGap, Grp(1, Num)>>),
        ng |-> 1, score |-> 800],
       [re |-> Cat(<<Grp(1, Sym), Spaces, Grp(2, Num)>>),
        ng |-> 2, score |-> 700],
       [re |-> Cat(<<Grp(1, Num), Spaces, Grp(2, Sym)>>),
        ng |-> 2, score |-> 700],
       [re |-> Cat(<<Grp(1, RupeeWord), Spaces, Grp(2, Num)>>),
        ng |-> 2, score |-> 700],
       [re |-> Cat(<<Grp(1, Plus(D)),
                     Opt(Cat(<<Ch({".", ","}), Grp(2, Rep(D, 2, 2))>>))>>),
        ng |-> 2, score |-> 500] >>

\* score + 0.1 in double arithmetic.  A score is kept in thousandths, with
\* one thousandth more or less where the double lies above or below the
\* two-decimal value (0.7 + 0.1 is 0.7999999999999999, kept as 799), so that
\* the order of the doubles is the order of the integers.
AddTenth(x) ==
    IF x \in {700, 799, 899} THEN x + 99
    ELSE IF x \in {1050, 1100} THEN x + 101
    ELSE x + 100

\* float(amount_str) in hundredths, after ',' is read as '.'
ParseAmount(str) ==
    LET dot == {i \in 1..Len(str) : str[i] \in {".", ","}}
        p == IF dot = {} THEN Len(str) + 1 ELSE CHOOSE i \in dot : TRUE
        frac == SubSeq(str, p + 1, Len(str))
    IN  100 * ToInt(SubSeq(str, 1, p - 1))
          + (IF Len(frac) = 1 THEN 10 * ToInt(frac) ELSE ToInt(frac))

\* variant: the is_integer test is left out
LooksLikeYear_AnyFraction(amount) == amount >= 190000 /\ amount <= 210000

\* 1900 <= amount <= 2100 and amount.is_integer()
LooksLikeYear(amount) ==
    amount >= 190000 /\ amount <= 210000 /\ amount % 100 = 0

\* amount|total|sum|price
SmallValueKeywords ==
    Alt(<<Word(<<"a","m","o","u","n","t">>), Word(<<"t","o","t","a","l">>),
          Word(<<"s","u","m">>), Word(<<"p","r","i","c","e">>)>>)

\* amount\s*:?\s*s
AmountSPattern ==
    Cat(<<Word(<<"a","m","o","u","n","t">>), Spaces, Opt(Ch({":"})), Spaces,
          Ch({"s"})>>)

\* amount\s*:?\s*s\s*(\d+)
AmountSDigitsPattern == Cat(<<AmountSPattern, Spaces, Grp(1, Plus(D))>>)

\* ^s\s*\d+
LeadingSPattern == Cat(<<Bol, Ch({"s"}), Spaces, Plus(D)>>)

\* [Rr][Ss]\.?|[Rr]upees?
RupeeIndicator ==
    Alt(<<Cat(<<Ch({"R", "r"}), Ch({"S", "s"}), Opt(Ch({"."}))>>),
          Cat(<<Ch({"R", "r"}), Word(<<"u","p","e","e">>), Opt(Ch({"s"}))>>)>>)

\* the candidate of the first check for one line; m is the match
MisreadCandidate(text, m) ==
    IF m.found
    THEN <<[amount |-> 100 * ToInt(m.groups[1]), currency |-> "USD",
            text |-> text, confidence |-> 950]>>
    ELSE <<>>

\* variant: the first check runs on the text as written, not lowered
RECURSIVE MisreadCandidates_CaseSensitive(_, _)
MisreadCandidates_CaseSensitive(results, i) ==
    IF i > Len(results) THEN <<>>
    ELSE MisreadCandidate(results[i].text,
                          Search(AmountSDigitsPattern, results[i].text, FALSE, 1))
            \o MisreadCandidates_CaseSensitive(results, i + 1)

\* first check: "Amount: S92", the '$' read as 'S'
RECURSIVE MisreadCandidates(_, _)
MisreadCandidates(results, i) ==
    IF i > Len(results) THEN <<>>
    ELSE MisreadCandidate(results[i].text,
                          Search(AmountSDigitsPattern, Lower(results[i].text), FALSE, 1))
            \o MisreadCandidates(results, i + 1)

\* abs(a - b) < 0.01 on amounts of at most two decimals.  For two amounts
\* exactly one hundredth apart the comparison of the doubles depends on how
\* the operands were rounded; no input of this model yields such a pair.
SameAmount(a, b) == a = b

\* the duplicate check: the first candidate of the same amount, or 0
RECURSIVE FirstSameAmount(_, _, _)
FirstSameAmount(cands, amount, j) ==
    IF j > Len(cands) THEN 0
    ELSE IF SameAmount(cands[j].amount, amount) THEN j
    ELSE FirstSameAmount(cands, amount, j + 1)

CurrencyCode(text, indicator) ==
    IF \/ Search(AmountSPattern, Lower(text), FALSE, 0).found
       \/ Search(LeadingSPattern, Lower(text), FALSE, 0).found
    THEN "USD"
    ELSE IF indicator # <<>>
    THEN (IF InCurrencyMap(Lower(indicator)) THEN CurrencyOf(Lower(indicator))
          ELSE IF Match(RupeeIndicator, indicator, FALSE, 0).found THEN "INR"
          ELSE "UNKNOWN")
    ELSE "UNKNOWN"

Boost(score, lowered, word) ==
    IF Contains(lowered, word) THEN AddTenth(score) ELSE score

BoostedScore(text, score) ==
    Boost(Boost(Boost(score, Lower(text), <<"t","o","t","a","l">>),
                Lower(text), <<"a","m","o","u","n","t">>),
          Lower(text), <<"p","r","i","c","e">>)

\* groups of a match: the number comes first when group 1 starts with a digit
AmountGroup(groups, numFirst) ==
    IF Len(groups) >= 2 /\ ~numFirst THEN groups[2] ELSE groups[1]

IndicatorGroup(groups, numFirst) ==
    IF Len(groups) >= 2 THEN (IF numFirst THEN groups[2] ELSE groups[1]) ELSE <<>>

\* the year filter and the small-value filter
Skipped(amount, text) ==
    \/ LooksLikeYear(amount)
    \/ amount < 100 /\ ~Search(SmallValueKeywords, Lower(text), FALSE, 0).found

\* the duplicate merge: j is the place of a candidate of the same amount,
\* 0 if there is none
Merged(cands, j, cand) ==
    IF j = 0 THEN Append(cands, cand)
    ELSE IF cand.confidence > cands[j].confidence
         THEN [cands EXCEPT ![j].confidence = cand.confidence,
                            ![j].text = cand.text]
    ELSE cands

Candidate(amount, text, score, indicator) ==
    [amount |-> amount, currency |-> CurrencyCode(text, indicator),
     text |-> text, confidence |-> BoostedScore(text, score)]

AddAmount(cands, text, score, amount, indicator) ==
    IF Skipped(amount, text) THEN cands
    ELSE Merged(cands, FirstSameAmount(cands, amount, 1),
                Candidate(amount, text, score, indicator))

AddGroups(cands, text, score, groups, numFirst) ==
    AddAmount(cands, text, score, ParseAmount(AmountGroup(groups, numFirst)),
              IndicatorGroup(groups, numFirst))

\* the body of the loop over matches: amount_candidates after one match
AddCandidate(cands, text, score, groups) ==
    AddGroups(cands, text, score, groups, Match(D, groups[1], FALSE, 0).found)

RECURSIVE AddMatches(_, _, _, _, _)
AddMatches(cands, text, score, ms, j) ==
    IF j > Len(ms) THEN cands
    ELSE AddMatches(AddCandidate(cands, text, score, ms[j].groups),
                    text, score, ms, j + 1)

\* amount_candidates after one pattern was run on one line
AfterPattern(cands, text, pat) ==
    AddMatches(cands, text, pat.score, FindIter(pat.re, text, TRUE, pat.ng), 1)

\* step n of the standard extraction, n = 1, 2, ...: the lines in rank
\* order and, for each line, the patterns in table order
AmountStep(cands, results, n) ==
    AfterPattern(cands, results[((n - 1) \div Len(currency_patterns)) + 1].text,
                 currency_patterns[((n - 1) % Len(currency_patterns)) + 1])

\* standard extraction: amount_candidates after the steps lo..hi, run in
\* order on cands.  The range is halved instead of walked, which keeps the
\* evaluation shallow.
RECURSIVE AmountCandidates(_, _, _, _)
RECURSIVE AmountCandidatesFrom(_, _, _, _)
AmountCandidatesFrom(next, results, lo, hi) ==
    \* the test is always true; it has TLC compute next before it goes on
    IF Len(next) >= 0 THEN AmountCandidates(next, results, lo, hi) ELSE next

AmountCandidates(cands, results, lo, hi) ==
    IF lo > hi THEN cands
    ELSE IF lo = hi THEN AmountStep(cands, results, lo)
    ELSE AmountCandidatesFrom(AmountCandidates(cands, results, lo, (lo + hi) \div 2),
                              results, ((lo + hi) \div 2) + 1, hi)

\* the first candidate, in sorted order, whose text holds word with score >= 0.7
RECURSIVE FirstLabeled(_, _, _)
FirstLabeled(sorted, word, j) ==
    IF j > Len(sorted) THEN 0
    ELSE IF Contains(Lower(sorted[j].text), word) /\ sorted[j].confidence >= 700
         THEN j
    ELSE FirstLabeled(sorted, word, j + 1)

\* variant: the default currency is USD
RECURSIVE PlainNumber_DefaultUSD(_, _)
PlainNumber_DefaultUSD(results, i) ==
    IF i > Len(results) THEN [value |-> 0, currency |-> "USD"]
    ELSE LET text == Strip(Lower(results[i].text))
         IN  IF IsDigitStr(text) /\ ToInt(text) > 0 /\ ToInt(text) < 10000
             THEN [value |-> 100 * ToInt(text), currency |-> "UNKNOWN"]
             ELSE PlainNumber_DefaultUSD(results, i + 1)

\* last resort: the first line that is a plain number in (0, 10000)
RECURSIVE PlainNumber(_, _)
PlainNumber(results, i) ==
    IF i > Len(results) THEN [value |-> 0, currency |-> "UNKNOWN"]
    ELSE LET text == Strip(Lower(results[i].text))
         IN  IF IsDigitStr(text) /\ ToInt(text) > 0 /\ ToInt(text) < 10000
             THEN [value |-> 100 * ToInt(text), currency |-> "UNKNOWN"]
             ELSE PlainNumber(results, i + 1)

\* variant: the highest score wins, whatever the labels
BestOf_HighestScore(sorted, t, a) == sorted[1]

\* t and a are the places of the first "total" and the first "amount"
\* candidate of score >= 0.7, 0 if there is none
BestOf(sorted, t, a) ==
    IF t # 0 THEN sorted[t] ELSE IF a # 0 THEN sorted[a] ELSE sorted[1]

\* the selection among the candidates sorted by score
BestAmount(sorted) ==
    BestOf(sorted, FirstLabeled(sorted, <<"t","o","t","a","l">>, 1),
           FirstLabeled(sorted, <<"a","m","o","u","n","t">>, 1))

AmountData(best) == [value |-> best.amount, currency |-> best.currency]

AmountFrom(cands, results) ==
    IF cands # <<>> THEN AmountData(BestAmount(SortByConfidence(cands)))
    ELSE PlainNumber(results, 1)

extract_amount_enhanced(results) ==
    AmountFrom(AmountCandidates(MisreadCandidates(results, 1), results, 1,
                                Len(results) * Len(currency_patterns)),
               results)

\* ------------------------------------------------------------------------
\* extract_receipt_data
\* ------------------------------------------------------------------------
\* the detections that survive the blank and length filters, with the
\* stripped text and its normalized form
RECURSIVE NormalizedResults(_, _)
NormalizedResults(ocr, i) ==
    IF i > Len(ocr) THEN <<>>
    ELSE LET text == Strip(ocr[i].text)
         IN  (IF text = <<>> \/ Len(text) < 2 THEN <<>>
              ELSE <<[text |-> text,
                      normalized_text |-> normalize_text(text),
                      confidence |-> ocr[i].confidence,
                      variant |-> ocr[i].variant]>>)
             \o NormalizedResults(ocr, i + 1)

\* keep the first entry of each exact text
RECURSIVE Deduplicate(_, _, _)
Deduplicate(results, i, seen_texts) ==
    IF i > Len(results) THEN <<>>
    ELSE IF results[i].text \in seen_texts
         THEN Deduplicate(results, i + 1, seen_texts)
         ELSE <<results[i]>>
                \o Deduplicate(results, i + 1, seen_texts \cup {results[i].text})

\* variant: duplicates are dropped before the list is ranked
DeduplicatedResults_DedupFirst(ocr) ==
    SortByConfidence(Deduplicate(NormalizedResults(ocr, 1), 1, {}))

DeduplicatedResults(ocr) ==
    Deduplicate(SortByConfidence(NormalizedResults(ocr, 1)), 1, {})

\* the returned record
ReceiptData(title, date, amount_data, deduplicated) ==
    [title    |-> title,
     date     |-> date,
     amount   |-> amount_data.value,
     currency |-> amount_data.currency,
     raw_text |-> [i \in 1..Len(deduplicated) |-> deduplicated[i].text]]

\* the three extractors run on the fused list
ExtractFrom(deduplicated) ==
    ReceiptData(extract_title_enhanced(deduplicated),
                extract_date_enhanced(deduplicated),
                extract_amount_enhanced(deduplicated),
                deduplicated)

extract_receipt_data(ocr) == ExtractFrom(DeduplicatedResults(ocr))

\* ------------------------------------------------------------------------
\* process_receipt_image: the variants, the floor, the isolated failures
\* ------------------------------------------------------------------------
\* the order in which the variants are appended to results
VariantNames == <<"binary", "adaptive", "enhanced", "denoised">>

\* 0.2 in hundredths
confidence_threshold == 20

\* what reader.readtext did on one image: it raised, or it returned a list
Raised == [raises |-> TRUE, results |-> <<>>]

Returned(results) == [raises |-> FALSE, results |-> results]

\* all_results.append({"variant": name, "text": text, "confidence": confidence})
Tagged(name, res) == [variant |-> name, text |-> res.text, confidence |-> res.confidence]

TagAll(name, kept) == [i \in 1..Len(kept) |-> Tagged(name, kept[i])]

\* the body of the loop for one variant: what it appends to all_results
VariantResults(name, outcome) ==
    IF outcome.raises THEN <<>>
    ELSE TagAll(name, SelectSeq(outcome.results,
                                LAMBDA res : res.confidence > confidence_threshold))

\* variant: an exception leaves the loop
RECURSIVE AllResultsFrom_RaiseEndsLoop(_, _)
AllResultsFrom_RaiseEndsLoop(readtext, k) ==
    IF k > Len(VariantNames) \/ readtext[VariantNames[k]].raises THEN <<>>
    ELSE VariantResults(VariantNames[k], readtext[VariantNames[k]])
            \o AllResultsFrom_RaiseEndsLoop(readtext, k + 1)

\* the loop over the variants, from the k-th on
RECURSIVE AllResultsFrom(_, _)
AllResultsFrom(readtext, k) ==
    IF k > Len(VariantNames) THEN <<>>
    ELSE VariantResults(VariantNames[k], readtext[VariantNames[k]])
            \o AllResultsFrom(readtext, k + 1)

process_receipt_image(readtext) == AllResultsFrom(readtext, 1)

\* ------------------------------------------------------------------------
\* process_receipt: the request handler
\* ------------------------------------------------------------------------
\* the fallback's formatting: every result of the standard run, tagged
StandardResults(results) == TagAll("standard", results)

\* the last-resort date of the handler: the first raw detection with a
\* D/M/20YY, written month/day/year with day the first number
RECURSIVE LastResortDate(_, _)
LastResortDate(ocr, i) ==
    IF i > Len(ocr) THEN NoDate
    ELSE OrElse(DayFirstDate(Search(DayMonthYear20Pattern, Strip(ocr[i].text), FALSE, 3)),
                LastResortDate(ocr, i + 1))

ErrorResponse(code, message) ==
    [status |-> code, success |-> FALSE, error |-> message,
     title |-> <<>>, date |-> <<>>, amount |-> 0, currency |-> "UNKNOWN",
     raw_text |-> <<>>]

\* the title and date checks of the handler, then the response
SuccessResponse(data, ocr) ==
    [status |-> 200, success |-> TRUE, error |-> "",
     title |-> IF data.title = <<>> THEN UntitledReceipt ELSE data.title,
     date |-> IF data.date = <<>> THEN LastResortDate(ocr, 1).value ELSE data.date,
     amount |-> data.amount, currency |-> data.currency,
     raw_text |-> data.raw_text]

\* the list handed to extract_receipt_data: the variants' results, or the
\* standard run's when the variants gave none
HandedResults(all, standard) ==
    IF all # <<>> THEN all ELSE StandardResults(standard.results)

\* the handler after the image was decoded
RespondTo(all, standard) ==
    IF all = <<>> /\ standard.raises
    THEN ErrorResponse(500, "readtext raised")
    ELSE IF all = <<>> /\ standard.results = <<>>
    THEN ErrorResponse(400, "No text detected in the image")
    ELSE SuccessResponse(extract_receipt_data(HandedResults(all, standard)),
                         HandedResults(all, standard))

process_receipt(req, readtext, standard) ==
    IF req = "no image" THEN ErrorResponse(400, "No image data provided")
    ELSE IF req = "undecodable" THEN ErrorResponse(400, "Invalid image data")
    ELSE RespondTo(process_receipt_image(readtext), standard)

\* ------------------------------------------------------------------------
\* Bounds and inputs
\* ------------------------------------------------------------------------
\* longest detection list drawn from ShortTexts
MaxDetections == 3

\* number of distinct confidence values of the detections
NumConfidences == 3

\* confidences in hundredths: 0.95, 0.90, 0.85, ...
Confidences == {100 - 5 * k : k \in 1..NumConfidences}

\* number of distinct confidence values in the lists drawn from ShortTexts
NumShortConfidences == 2

ShortConfidences == {100 - 5 * k : k \in 1..NumShortConfidences}

\* "Amount: S<n>": the digits n and their value in hundredths
MisreadNumbers ==
    { [s |-> <<"9","2">>, v |-> 9200],
      [s |-> <<"7">>, v |-> 700],
      [s |-> <<"0">>, v |-> 0],
      [s |-> <<"1","0","0">>, v |-> 10000],
      [s |-> <<"1","9","9","9">>, v |-> 199900],
      [s |-> <<"2","0","2","4">>, v |-> 202400] }

AmountSText(n) == <<"A","m","o","u","n","t",":"," ","S">> \o n

AmountSLines == {AmountSText(n.s) : n \in MisreadNumbers}

\* numbers written after a currency symbol, with their value in hundredths
SymbolNumbers ==
    { [s |-> <<"4","5",".","0","0">>, v |-> 4500],
      [s |-> <<"4","5",".","5">>, v |-> 4550],
      [s |-> <<"3","3",".","7","1">>, v |-> 3371],
      [s |-> <<"1">>, v |-> 100],
      [s |-> <<"1","2","0","0">>, v |-> 120000],
      [s |-> <<"2","0","2","4",".","5","0">>, v |-> 202450],
      [s |-> <<"2","1","0","1">>, v |-> 210100],
      [s |-> <<"2","0","2","4">>, v |-> 202400],
      [s |-> <<"1","9","0","0",".","0">>, v |-> 190000],
      [s |-> <<"0",".","5","0">>, v |-> 50] }

SymbolText(sym, n) == <<sym>> \o n

SymbolLines == {SymbolText(sym, n.s) : sym \in CurrencySymbols, n \in SymbolNumbers}

\* days and months as written, with their value and their two-digit form
DayTexts ==
    { [s |-> <<"5">>, v |-> 5, padded |-> <<"0","5">>],
      [s |-> <<"1","2">>, v |-> 12, padded |-> <<"1","2">>],
      [s |-> <<"1","3">>, v |-> 13, padded |-> <<"1","3">>],
      [s |-> <<"3","1">>, v |-> 31, padded |-> <<"3","1">>],
      [s |-> <<"3","2">>, v |-> 32, padded |-> <<"3","2">>] }

MonthTexts ==
    { [s |-> <<"1">>, v |-> 1, padded |-> <<"0","1">>],
      [s |-> <<"3">>, v |-> 3, padded |-> <<"0","3">>],
      [s |-> <<"0","3">>, v |-> 3, padded |-> <<"0","3">>],
      [s |-> <<"1","2">>, v |-> 12, padded |-> <<"1","2">>],
      [s |-> <<"1","5">>, v |-> 15, padded |-> <<"1","5">>] }

YearTexts == { <<"2","0","2","4">>, <<"2","0","0","0">> }

LabeledDateText(a, b, y) ==
    <<"D","a","t","e",":"," ">> \o a \o <<"/">> \o b \o <<"/">> \o y

LabeledDateLines ==
    {LabeledDateText(a.s, b.s, y) : a \in DayTexts, b \in MonthTexts, y \in YearTexts}

\* lines that are one bare integer
BareIntegers ==
    { <<"1","8","9","9">>, <<"1","9","0","0">>, <<"2","0","2","4">>,
      <<"2","1","0","0">>, <<"2","1","0","1">>, <<"5","0","0">>,
      <<"1","2","3","4","5">> }

DominosText == <<"D","O","M","I","N","O","'","S"," ","P","I","Z","Z","A">>

TotalText == <<"T","o","t","a","l",":"," ","$","3","3",".","7","1">>

DateText == <<"D","a","t","e",":"," ","0","3","/","1","5","/","2","0","2","4">>

OtherLines ==
    { DominosText, TotalText, DateText,
      <<"T","i","t","l","e">>,
      <<"T","i","t","l","e",":"," ","T","i","t","l","e">>,
      <<"S","t","o","r","e",".">>,
      <<"n","a","m","e",":"," ","a","b">>,
      <<"S","t","o","r","e",":"," ","J","o","e","'","s">>,
      <<"A","c","m","e"," ","I","n","c">>,
      <<"J","o","e"," ","B","a","r">>,
      <<"d","t",":"," ","1","/","2","/","1","2","3">>,
      <<"2","0","2","4","-","3","-","5">>,
      <<"2","0","2","4","-","0","3","-","1","5">>,
      <<"1","2","/","0","3","/","1","9","9","9">>,
      <<"1","/","2","/","9","9">>,
      <<"1","5"," ","M","a","r"," ","2","0","2","4">>,
      <<"D","a","t","e",":"," ","5"," ","j","a","n"," ","9","9">>,
      <<"T","o","t","a","l",":"," ","2","0","0","0">>,
      <<"T","o","t","a","l"," ","4","5",",","5","0"," ","€">>,
      <<"A","m","o","u","n","t"," ","R","s","."," ","5","0","0">>,
      <<"S","9","2">>,
      <<"P","r","i","c","e",":"," ","0",".","5","0">>,
      <<"r","s"," ","2","0">>,
      <<"T","o","t","a","l",":"," ","3","3",".","7","1">>,
      <<"A","m","o","u","n","t",":"," ","1","2",".","3","4">>,
      <<"A"," ","'"," ","B">> }

\* the same numbers without the label, in one of the years
BareDateText(a, b, y) == a \o <<"/">> \o b \o <<"/">> \o y

BareDateLines ==
    {BareDateText(a.s, b.s, <<"2","0","2","4">>) : a \in DayTexts, b \in MonthTexts}

\* ISO dates: year, month and day as written
IsoDates ==
    { [y |-> <<"2","0","2","4">>, m |-> <<"0","3">>, d |-> <<"1","5">>],
      [y |-> <<"2","0","2","4">>, m |-> <<"1","1">>, d |-> <<"0","5">>],
      [y |-> <<"2","0","0","0">>, m |-> <<"0","1">>, d |-> <<"0","1">>] }

IsoText(iso) == iso.y \o <<"-">> \o iso.m \o <<"-">> \o iso.d

IsoLines == {IsoText(iso) : iso \in IsoDates}

LoneTexts ==
    AmountSLines \cup SymbolLines \cup LabeledDateLines \cup BareDateLines
        \cup BareIntegers \cup OtherLines \cup IsoLines

\* short texts for lists with duplicates, padding and ties
ShortTexts == { <<"A","1">>, <<" ","A","1"," ">>, <<"B","2">> }

\* texts the length filter drops: one character, blank, empty
DroppedTexts == { <<"7">>, <<" ">>, <<>> }

Detection(t, c) == [text |-> t, confidence |-> c, variant |-> "binary"]

ShortDetections == {Detection(t, c) : t \in ShortTexts, c \in ShortConfidences}

ShortLists == UNION {[1..n -> ShortDetections] : n \in 0..MaxDetections}

\* a dropped text before or after a kept one
DroppedLists ==
    UNION { { <<Detection(d, a), Detection(t, b)>>, <<Detection(t, b), Detection(d, a)>> } :
              d \in DroppedTexts, t \in ShortTexts,
              a \in ShortConfidences, b \in ShortConfidences }

LoneLists == {<<Detection(t, c)>> : t \in LoneTexts, c \in Confidences}

\* the end-to-end scenario under every assignment of confidences
ScenarioLists ==
    { <<Detection(TotalText, a), Detection(DateText, b), Detection(DominosText, c)>> :
        a \in Confidences, b \in Confidences, c \in Confidences }

\* two lines of different kinds, either one ranked first
RankedPairs ==
    { <<<<"A","c","m","e"," ","I","n","c">>,
        <<"S","t","o","r","e",":"," ","J","o","e","'","s">>>>,
      <<<<"4","2">>,
        <<"V","e","n","d","o","r",":"," ","J","o","e","'","s">>>>,
      <<<<"0","1","/","0","2","/","2","0","2","4">>,
        <<"D","a","t","e",":"," ","0","3","/","1","5","/","2","0","2","4">>>>,
      <<<<"0","1","/","0","2","/","2","0","2","4">>,
        <<"D","a","t","e",":"," ","1","5","/","0","3","/","2","0","2","4">>>>,
      <<<<"1","/","2","/","9","9">>,
        <<"D","a","t","e",":"," ","5","/","6","/","9","8">>>>,
      <<<<"1","/","2","/","9","9">>,
        <<"2","0","2","4","-","0","3","-","1","5">>>>,
      <<<<"A","m","o","u","n","t",":"," ","S","9","2">>,
        <<"T","o","t","a","l",":"," ","5","0">>>>,
      <<<<"4","5",".","0","0">>,
        <<"$","4","5",".","0","0">>>> }

PairLists ==
    UNION { { <<Detection(p[1], 95), Detection(p[2], 90)>>,
              <<Detection(p[2], 95), Detection(p[1], 90)>> } : p \in RankedPairs }

Inputs == ShortLists \cup DroppedLists \cup LoneLists \cup ScenarioLists \cup PairLists

\* ------------------------------------------------------------------------
\* ExpenseOCR.parse_amount
\* ------------------------------------------------------------------------
Newline == "\n"

\* text.split('\n')
RECURSIVE SplitLines(_)
SplitLines(text) ==
    IF \A i \in 1..Len(text) : text[i] # Newline THEN <<text>>
    ELSE LET k == FirstPosition({i \in 1..Len(text) : text[i] = Newline})
         IN  <<SubSeq(text, 1, k - 1)>> \o SplitLines(SubSeq(text, k + 1, Len(text)))

\* r'[₹$]?\s*\d+(?:,\d{3})*(?:\.\d{2})?'
amount_pattern ==
    Cat(<<Opt(Ch({"₹", "$"})), Star(Ch(Whitespace)), Plus(D),
          Star(Cat(<<Ch({","}), Rep(D, 3, 3)>>)),
          Opt(Cat(<<Ch({"."}), Rep(D, 2, 2)>>))>>)

\* re.findall(amount_pattern, line): the matched texts
MatchedTexts(line, ms) == [j \in 1..Len(ms) |-> SubSeq(line, ms[j].start, ms[j].end - 1)]

FindAmounts(line) == MatchedTexts(line, FindIter(amount_pattern, line, FALSE, 0))

\* match.replace('₹', '').replace('$', '').replace(',', '')
AmountStr(match) == SelectSeq(match, LAMBDA c : c \notin {"₹", "$", ","})

\* float(amount_str) in hundredths: float() skips the surrounding whitespace,
\* what is left is digits with at most a two-digit fraction
FloatOfTrimmed(t) ==
    IF \E i \in 1..Len(t) : t[i] = "."
    THEN 100 * ToInt(SubSeq(t, 1, Len(t) - 3)) + ToInt(SubSeq(t, Len(t) - 1, Len(t)))
    ELSE 100 * ToInt(t)

Float(amount_str) == FloatOfTrimmed(Strip(amount_str))

\* None
NoAmount == [found |-> FALSE, value |-> 0]

\* float of matches[-1], when there are matches
LastAmount(matches) ==
    IF matches = <<>> THEN NoAmount
    ELSE [found |-> TRUE, value |-> Float(AmountStr(matches[Len(matches)]))]

HasWords(line, words) == \A w \in words : Contains(line, w)

TotalWord == <<"t","o","t","a","l">>

AmountWord == <<"a","m","o","u","n","t">>

SubtotalWord == <<"s","u","b","t","o","t","a","l">>

\* variant: the first line with the words decides, with or without an amount
RECURSIVE LabelledLineAmount_FirstLabelledLine(_, _, _)
LabelledLineAmount_FirstLabelledLine(lines, i, words) ==
    IF i > Len(lines) THEN NoAmount
    ELSE IF HasWords(Strip(Lower(lines[i])), words)
         THEN LastAmount(FindAmounts(Strip(Lower(lines[i]))))
         ELSE LabelledLineAmount_FirstLabelledLine(lines, i + 1, words)

\* one of the first two loops: the lines in order, lowered and stripped; a
\* line with the words returns its last amount, or is passed over when the
\* pattern finds nothing on it
RECURSIVE LabelledLineAmount(_, _, _)
LabelledLineAmount(lines, i, words) ==
    IF i > Len(lines) THEN NoAmount
    ELSE IF HasWords(Strip(Lower(lines[i])), words)
         THEN OrElse(LastAmount(FindAmounts(Strip(Lower(lines[i])))),
                     LabelledLineAmount(lines, i + 1, words))
         ELSE LabelledLineAmount(lines, i + 1, words)

\* the third loop's amounts of one line: 0 < amount < 1000000
ReasonableAmounts(matches) ==
    {v \in {Float(AmountStr(matches[j])) : j \in 1..Len(matches)} :
        v > 0 /\ v < 100000000}

AnyAmounts(lines) == UNION {ReasonableAmounts(FindAmounts(lines[i])) : i \in 1..Len(lines)}

\* max(amounts) if amounts else None
LargestAmount(amounts) ==
    IF amounts = {} THEN NoAmount
    ELSE [found |-> TRUE, value |-> CHOOSE v \in amounts : \A w \in amounts : w <= v]

ParseLines(lines) ==
    OrElse(LabelledLineAmount(lines, 1, {TotalWord, AmountWord}),
           OrElse(LabelledLineAmount(lines, 1, {SubtotalWord}),
                  LargestAmount(AnyAmounts(lines))))

parse_amount(text) == ParseLines(SplitLines(text))

\* lines of the texts given to parse_amount
MaxLines == 2

AmountLines ==
    { <<"T","o","t","a","l"," ","A","m","o","u","n","t",":"," ","$","1","2",".","5","0">>,
      <<"t","o","t","a","l"," ","a","m","o","u","n","t"," ","d","u","e">>,
      <<"S","u","b","t","o","t","a","l"," ","1",",","2","3","4",".","5","6">>,
      <<"T","o","t","a","l",":"," ","$","1","2","3",".","4","5">>,
      <<"N","o"," ","a","m","o","u","n","t"," ","h","e","r","e">>,
      <<"A","m","o","u","n","t",":"," ","₹","1",",","2","3","4",".","5","6">>,
      <<"0",".","0","0">>,
      <<"1","0","0","0","0","0","0">>,
      <<"A","M","O","U","N","T"," ","3"," ","T","O","T","A","L"," ","4",".","5">>,
      <<"s","u","b","t","o","t","a","l">>,
      <<"S","u","b","t","o","t","a","l",":"," ","0">>,
      <<"9","9","9",",","9","9","9",".","9","9">> }

RECURSIVE JoinLines(_)
JoinLines(lines) ==
    IF Len(lines) = 1 THEN lines[1]
    ELSE lines[1] \o <<Newline>> \o JoinLines(Tail(lines))

AmountTexts ==
    {<<>>} \cup {JoinLines(ls) : ls \in UNION {[1..n -> AmountLines] : n \in 1..MaxLines}}

\* most detections one variant's run returns
MaxVariantDetections == 1

\* what readtext returns for one region: below, at and above the floor
Reading(t, c) == [text |-> t, confidence |-> c]

FloorReadings ==
    { Reading(<<"A","1">>, 10), Reading(<<"A","1">>, 20), Reading(<<"B","2">>, 90) }

VariantOutcomes ==
    {Raised} \cup {Returned(rs) : rs \in UNION {[1..n -> FloorReadings] :
                                                    n \in 0..MaxVariantDetections}}

VariantSet == {VariantNames[k] : k \in 1..Len(VariantNames)}

\* the runs behind one request: a variant raises, finds nothing, finds a
\* line below or above the floor, or a line of one character
RequestOutcomes ==
    { Raised, Returned(<<>>), Returned(<<Reading(<<"A","1">>, 10)>>),
      Returned(<<Reading(<<"B","2">>, 90)>>), Returned(<<Reading(<<"7">>, 90)>>) }

StandardOutcomes ==
    { Raised, Returned(<<>>), Returned(<<Reading(<<"A","1">>, 10)>>),
      Returned(<<Reading(<<" ">>, 90)>>), Returned(<<Reading(DateText, 90)>>) }

Requests == {"no image", "undecodable", "image"}

\* ------------------------------------------------------------------------
\* ReceiptOCR (receipt_ocr.py): lines of text blocks, structured record
\* ------------------------------------------------------------------------
\* a text block of extract_text_with_position; of its position only the
\* upper left corner is read
Block(text, confidence, x1, y1) ==
    [text |-> text, confidence |-> confidence, position |-> [x1 |-> x1, y1 |-> y1]]

\* list.sort(key=...) is stable: a block goes behind the blocks of equal key
InsertByY1(block, sorted) ==
    SelectSeq(sorted, LAMBDA b : b.position.y1 <= block.position.y1)
      \o <<block>>
      \o SelectSeq(sorted, LAMBDA b : b.position.y1 > block.position.y1)

\* text_blocks.sort(key=lambda x: x['position']['y1'])
RECURSIVE SortByY1(_)
SortByY1(blocks) ==
    IF blocks = <<>> THEN <<>>
    ELSE InsertByY1(blocks[Len(blocks)], SortByY1(SubSeq(blocks, 1, Len(blocks) - 1)))

InsertByX1(block, sorted) ==
    SelectSeq(sorted, LAMBDA b : b.position.x1 <= block.position.x1)
      \o <<block>>
      \o SelectSeq(sorted, LAMBDA b : b.position.x1 > block.position.x1)

\* line.sort(key=lambda x: x['position']['x1'])
RECURSIVE SortByX1(_)
SortByX1(line) ==
    IF line = <<>> THEN <<>>
    ELSE InsertByX1(line[Len(line)], SortByX1(SubSeq(line, 1, Len(line) - 1)))

y_threshold == 10

Abs(n) == IF n < 0 THEN 0 - n ELSE n

\* variant: the block is compared with the first block of the line
OnCurrentLine_FirstBlock(block, current_line) ==
    Abs(block.position.y1 - current_line[1].position.y1) <= y_threshold

\* y_diff <= y_threshold, y_diff taken to the last block put on the line
OnCurrentLine(block, current_line) ==
    LET last_block == current_line[Len(current_line)]
    IN  Abs(block.position.y1 - last_block.position.y1) <= y_threshold

\* the loop over the blocks, and the line still open added at its end
RECURSIVE GroupFrom(_, _, _)
GroupFrom(blocks, lines, current_line) ==
    IF blocks = <<>>
    THEN IF current_line # <<>> THEN Append(lines, current_line) ELSE lines
    ELSE IF current_line = <<>>
         THEN GroupFrom(Tail(blocks), lines, <<blocks[1]>>)
         ELSE IF OnCurrentLine(blocks[1], current_line)
              THEN GroupFrom(Tail(blocks), lines, Append(current_line, blocks[1]))
              ELSE GroupFrom(Tail(blocks), Append(lines, current_line), <<blocks[1]>>)

LinesByX1(lines) == [i \in 1..Len(lines) |-> SortByX1(lines[i])]

group_text_blocks(text_blocks) ==
    IF text_blocks = <<>> THEN <<>>
    ELSE LinesByX1(GroupFrom(SortByY1(text_blocks), <<>>, <<>>))

\* the caller's list after group_text_blocks: sorted in place
BlocksAfterGrouping(text_blocks) == SortByY1(text_blocks)

\* the methods class ReceiptOCR defines
ReceiptOCRMethods ==
    {"__init__", "load_receipt_dictionaries", "load_merchant_categories",
     "enhanced_preprocess", "extract_text_with_position", "group_text_blocks",
     "extract_structured_data", "is_merchant_line", "is_date_line",
     "is_total_line", "is_tax_line", "parse_amount", "assess_image_quality",
     "calculate_overall_confidence"}

\* the dictionary {}
EmptyDict == [k \in {} |-> 0]

\* self.receipt_terms['en']
receipt_terms ==
    [total    |-> {<<"t","o","t","a","l">>, <<"a","m","o","u","n","t">>, <<"s","u","m">>, <<"g","r","a","n","d"," ","t","o","t","a","l">>, <<"n","e","t"," ","a","m","o","u","n","t">>},
     tax      |-> {<<"t","a","x">>, <<"g","s","t">>, <<"v","a","t">>, <<"s","e","r","v","i","c","e"," ","c","h","a","r","g","e">>},
     date     |-> {<<"d","a","t","e">>, <<"i","n","v","o","i","c","e"," ","d","a","t","e">>, <<"b","i","l","l"," ","d","a","t","e">>},
     merchant |-> {<<"s","t","o","r","e">>, <<"s","h","o","p">>, <<"o","u","t","l","e","t">>, <<"b","r","a","n","c","h">>}]

\* any(indicator in text.lower() for indicator in indicators)
HasIndicator(text, indicators) == \E w \in indicators : Contains(Lower(text), w)

GroupedNumber ==
    Grp(1, Cat(<<Plus(D), Star(Cat(<<Ch({","}), Rep(D, 3, 3)>>)),
                 Opt(Cat(<<Ch({"."}), Rep(D, 2, 2)>>))>>))

\* self.currency_patterns['en']
ReceiptOCR_currency_patterns ==
    << Cat(<<Ch({"₹"}), Spaces, GroupedNumber>>),
       Cat(<<Word(<<"R","s">>), Opt(Ch({"."})), Spaces, GroupedNumber>>) >>

\* ReceiptOCR.parse_amount: the first pattern found in the text decides
ReceiptOCR_parse_amount(text) ==
    LET m == OrElse(Search(ReceiptOCR_currency_patterns[1], text, FALSE, 1),
                    Search(ReceiptOCR_currency_patterns[2], text, FALSE, 1))
    IN  IF m.found
        THEN [found |-> TRUE,
              value |-> Float(SelectSeq(m.groups[1], LAMBDA c : c # ","))]
        ELSE NoAmount

\* ' '.join([block['text'] for block in line])
RECURSIVE JoinBlocks(_)
JoinBlocks(line) ==
    IF line = <<>> THEN <<>>
    ELSE IF Len(line) = 1 THEN line[1].text
    ELSE line[1].text \o <<" ">> \o JoinBlocks(Tail(line))

RECURSIVE SumConfidence(_)
SumConfidence(line) ==
    IF line = <<>> THEN 0 ELSE line[1].confidence + SumConfidence(Tail(line))

\* sum(block['confidence'] for block in line) / len(line), in hundredths
LineConfidence(line) == SumConfidence(line) \div Len(line)

InitialResult(image_quality) ==
    [merchant |-> [value |-> <<>>, confidence |-> 0],
     date     |-> [value |-> <<>>, confidence |-> 0],
     total    |-> [value |-> 0, confidence |-> 0],
     tax      |-> [value |-> 0, confidence |-> 0],
     items    |-> <<>>,
     raw_text |-> <<>>,
     language |-> "en",
     processing_metadata |-> [image_quality |-> image_quality,
                               extraction_confidence |-> 0]]

WithMerchant(result, line) ==
    IF result.merchant.value = <<>> /\ HasIndicator(JoinBlocks(line), receipt_terms.merchant)
    THEN [result EXCEPT !.merchant = [value |-> JoinBlocks(line),
                                      confidence |-> LineConfidence(line)]]
    ELSE result

\* whether the line makes the loop call self.parse_date
CallsParseDate(result, line) ==
    result.date.value = <<>> /\ HasIndicator(JoinBlocks(line), receipt_terms.date)

\* "if amount:" holds for a number other than 0.0
WithTotal(result, line) ==
    IF /\ result.total.value = 0
       /\ HasIndicator(JoinBlocks(line), receipt_terms.total)
       /\ ReceiptOCR_parse_amount(JoinBlocks(line)).value # 0
    THEN [result EXCEPT !.total = [value |-> ReceiptOCR_parse_amount(JoinBlocks(line)).value,
                                   confidence |-> LineConfidence(line)]]
    ELSE result

WithTax(result, line) ==
    IF /\ result.tax.value = 0
       /\ HasIndicator(JoinBlocks(line), receipt_terms.tax)
       /\ ReceiptOCR_parse_amount(JoinBlocks(line)).value # 0
    THEN [result EXCEPT !.tax = [value |-> ReceiptOCR_parse_amount(JoinBlocks(line)).value,
                                 confidence |-> LineConfidence(line)]]
    ELSE result

WithRawText(result, line) ==
    [result EXCEPT !.raw_text = @ \o JoinBlocks(line) \o <<"\n">>]

calculate_overall_confidence(result) ==
    (20 * result.merchant.confidence + 20 * result.date.confidence
       + 30 * result.total.confidence + 20 * result.tax.confidence
       + 10 * result.processing_metadata.image_quality) \div 100

\* the loop over the lines; a call of a method the class does not define
\* raises AttributeError, and the except branch returns {}
RECURSIVE ProcessLines(_, _)
ProcessLines(lines, result) ==
    IF lines = <<>>
    THEN [result EXCEPT !.processing_metadata.extraction_confidence =
                            calculate_overall_confidence(result)]
    ELSE IF CallsParseDate(WithMerchant(result, lines[1]), lines[1])
              /\ "parse_date" \notin ReceiptOCRMethods
         THEN EmptyDict
         ELSE ProcessLines(Tail(lines),
                  WithRawText(WithTax(WithTotal(WithMerchant(result, lines[1]),
                                                lines[1]), lines[1]), lines[1]))

\* ReceiptOCR.extract_structured_data on an image whose text detection
\* gives text_blocks and whose quality is image_quality
extract_structured_data(text_blocks, image_quality) ==
    IF "detect_language" \notin ReceiptOCRMethods
    THEN EmptyDict
    ELSE ProcessLines(group_text_blocks(text_blocks), InitialResult(image_quality))

\* inputs of ReceiptOCR: the blocks the text detection returns
MaxBlocks == 3

BlockTexts == {<<"S","t","o","r","e">>, <<"T","o","t","a","l"," ","R","s"," ","5","0">>}

BlockYs == {0, 8, 16, 30}

BlockXs == {0, 5}

Blocks == {Block(t, 90, x, y) : t \in BlockTexts, x \in BlockXs, y \in BlockYs}

BlockLists == UNION {[1..n -> Blocks] : n \in 0..MaxBlocks}

ImageQualities == {0, 50, 100}

\* ------------------------------------------------------------------------
\* AuthenticationManager (auth/authentication.py) on DatabaseConnection
\* (database/db_connection.py)
\* ------------------------------------------------------------------------
\* DatabaseConnection.query with "WHERE username = ? OR email = ?": None
\* without a row, the row as a dict for one row, a list of dicts for more
Query(table, username, email) ==
    LET results == SelectSeq(table, LAMBDA row : row.username = username
                                                  \/ row.email = email)
    IN  IF results = <<>> THEN [kind |-> "None", rows |-> <<>>]
        ELSE IF Len(results) = 1 THEN [kind |-> "dict", rows |-> results]
        ELSE [kind |-> "list", rows |-> results]

\* _hash_password: the derived key is a function of the password and the salt
HashPassword(password, salt) == <<password, salt>>

\* the users table after register_user: a row is inserted unless a row
\* has the username or the email
register_user(table, username, email, password, salt) ==
    IF Query(table, username, email).kind # "None" THEN table
    ELSE Append(table, [id            |-> Len(table) + 1,
                        username      |-> username,
                        email         |-> email,
                        password_hash |-> HashPassword(password, salt),
                        salt          |-> salt])

RegisterResult(table, username, email) ==
    IF Query(table, username, email).kind # "None"
    THEN [success |-> FALSE, message |-> "Username or email already exists"]
    ELSE [success |-> TRUE, user_id |-> Len(table) + 1,
          message |-> "User registered successfully"]

InvalidLogin ==
    [outcome |-> "returns", success |-> FALSE,
     message |-> "Invalid username or password"]

\* what login does: a dict it returns, or the exception it lets through.
\* user["password_hash"] on the list of a query with several rows raises
\* TypeError.
login(table, username_or_email, password, token) ==
    LET user == Query(table, username_or_email, username_or_email)
    IN  IF user.kind = "None" THEN InvalidLogin
        ELSE IF user.kind = "list" THEN [outcome |-> "raises", error |-> "TypeError"]
        ELSE IF user.rows[1].password_hash # HashPassword(password, user.rows[1].salt)
             THEN InvalidLogin
        ELSE [outcome |-> "returns", success |-> TRUE, token |-> token,
              user_id |-> user.rows[1].id, username |-> user.rows[1].username]

\* self.session_store after login
SessionsAfterLogin(sessions, result) ==
    IF result.outcome = "returns" /\ result.success
    THEN (result.token :> [user_id |-> result.user_id]) @@ sessions
    ELSE sessions

MaxUsers == 2

\* strings taken as usernames and as e-mail addresses
Identifiers == {"ann", "bob", "cy"}

Passwords == {"p1", "p2"}

Salts == {"s1", "s2"}

Tokens == {"t1", "t2"}

\* ------------------------------------------------------------------------
\* State machine: one request, from the detection list to the record
\* ------------------------------------------------------------------------
VARIABLES
    pc,                   \* "request" before extract_receipt_data, "done" after
    ocr_results,          \* the detection list handed to extract_receipt_data
    deduplicated_results, \* the ranked, duplicate-free lines it built
    record,               \* the record it returned
    second_record,        \* the record of a second run on the same list
    receipt_text,         \* the text given to parse_amount
    parsed_amount,        \* what parse_amount returned
    request,              \* the kind of request process_receipt received
    variant_readtext,     \* what reader.readtext does on each variant's image
    standard_readtext,    \* what reader.readtext does on the preprocessed image
    all_results,          \* what process_receipt_image returned
    response,             \* what process_receipt answered
    text_blocks,          \* the blocks of ReceiptOCR's text detection
    lines,                \* what group_text_blocks returned
    structured,           \* what extract_structured_data returned
    users,                \* the rows of the users table
    session_store,        \* AuthenticationManager.session_store
    register_result,      \* what the last register_user returned
    login_result          \* what the last login did

amount_vars == <<receipt_text, parsed_amount>>

receipt_vars == <<request, variant_readtext, standard_readtext, all_results, response>>

extract_vars == <<ocr_results, deduplicated_results, record, second_record>>

layout_vars == <<text_blocks, lines, structured>>

auth_vars == <<users, session_store, register_result, login_result>>

vars == <<pc, extract_vars, amount_vars, receipt_vars, layout_vars, auth_vars>>

NotCalled == [outcome |-> "none"]

\* no image in sight
NoLayout ==
    /\ text_blocks = <<>>
    /\ lines = <<>>
    /\ structured = NotCalled

\* no user, no session
NoAuth ==
    /\ users = <<>>
    /\ session_store = EmptyDict
    /\ register_result = NotCalled
    /\ login_result = NotCalled

NoResponse == ErrorResponse(0, "")

\* no request in sight
NoReceipt ==
    /\ request = "no image"
    /\ variant_readtext = [v \in VariantSet |-> Raised]
    /\ standard_readtext = Raised
    /\ all_results = <<>>
    /\ response = NoResponse

NoRecord ==
    [title |-> <<>>, date |-> <<>>, amount |-> 0, currency |-> "UNKNOWN",
     raw_text |-> <<>>]

Init ==
    /\ pc = "request"
    /\ ocr_results \in Inputs
    /\ deduplicated_results = <<>>
    /\ record = NoRecord
    /\ second_record = NoRecord
    /\ receipt_text = <<>>
    /\ parsed_amount = NoAmount
    /\ NoReceipt
    /\ NoLayout
    /\ NoAuth

\* variant: the run writes the stripped, normalized text back into the
\* detections it was given
ListAfterRun_NormalizedInPlace(ocr) ==
    [i \in 1..Len(ocr) |-> [ocr[i] EXCEPT !.text = normalize_text(Strip(ocr[i].text))]]

\* the caller's list after a run: the detections are only read, the
\* entries of normalized_results are new
ListAfterRun(ocr) == ocr

ExtractReceiptData ==
    /\ pc = "request"
    /\ deduplicated_results' = DeduplicatedResults(ocr_results)
    /\ record' = extract_receipt_data(ocr_results)
    /\ pc' = "done"
    /\ ocr_results' = ListAfterRun(ocr_results)
    /\ UNCHANGED <<second_record, amount_vars, receipt_vars, layout_vars, auth_vars>>

\* a second call with the list the first call was given
ExtractAgain ==
    /\ pc = "done"
    /\ second_record' = extract_receipt_data(ocr_results)
    /\ pc' = "again"
    /\ ocr_results' = ListAfterRun(ocr_results)
    /\ UNCHANGED <<deduplicated_results, record, amount_vars, receipt_vars, layout_vars, auth_vars>>

Next == ExtractReceiptData

Spec == Init /\ [][Next]_vars

NextRerun == ExtractReceiptData \/ ExtractAgain

SpecRerun == Init /\ [][NextRerun]_vars

\* one call of ExpenseOCR.parse_amount
InitAmount ==
    /\ pc = "parse"
    /\ receipt_text \in AmountTexts
    /\ parsed_amount = NoAmount
    /\ ocr_results = <<>>
    /\ deduplicated_results = <<>>
    /\ record = NoRecord
    /\ second_record = NoRecord
    /\ NoReceipt
    /\ NoLayout
    /\ NoAuth

ParseAmountCall ==
    /\ pc = "parse"
    /\ parsed_amount' = parse_amount(receipt_text)
    /\ pc' = "parsed"
    /\ UNCHANGED <<receipt_text, extract_vars, receipt_vars, layout_vars, auth_vars>>

NextAmount == ParseAmountCall

SpecAmount == InitAmount /\ [][NextAmount]_vars

\* one call of process_receipt_image
InitVariants ==
    /\ pc = "variants"
    /\ variant_readtext \in [VariantSet -> VariantOutcomes]
    /\ request = "image"
    /\ standard_readtext = Raised
    /\ all_results = <<>>
    /\ response = NoResponse
    /\ ocr_results = <<>>
    /\ deduplicated_results = <<>>
    /\ record = NoRecord
    /\ second_record = NoRecord
    /\ receipt_text = <<>>
    /\ parsed_amount = NoAmount
    /\ NoLayout
    /\ NoAuth

ProcessReceiptImage ==
    /\ pc = "variants"
    /\ all_results' = process_receipt_image(variant_readtext)
    /\ pc' = "fused"
    /\ UNCHANGED <<request, variant_readtext, standard_readtext, response,
                   extract_vars, amount_vars, layout_vars, auth_vars>>

NextVariants == ProcessReceiptImage

SpecVariants == InitVariants /\ [][NextVariants]_vars

\* one request to process_receipt
InitReceipt ==
    /\ pc = "received"
    /\ request \in Requests
    /\ variant_readtext \in [VariantSet -> RequestOutcomes]
    /\ standard_readtext \in StandardOutcomes
    /\ request # "image" =>
          /\ variant_readtext = [v \in VariantSet |-> Raised]
          /\ standard_readtext = Raised
    /\ all_results = <<>>
    /\ response = NoResponse
    /\ ocr_results = <<>>
    /\ deduplicated_results = <<>>
    /\ record = NoRecord
    /\ second_record = NoRecord
    /\ receipt_text = <<>>
    /\ parsed_amount = NoAmount
    /\ NoLayout
    /\ NoAuth

\* the detections the handler had when it called extract_receipt_data,
\* <<>> when it answered before
ResultsAtExtraction(req, all, standard) ==
    IF req = "image" /\ ~(all = <<>> /\ standard.raises)
    THEN HandedResults(all, standard)
    ELSE <<>>

\* the whole handler: the variants, the fallback, the extraction, the answer
ProcessReceipt ==
    /\ pc = "received"
    /\ all_results' = IF request = "image"
                         THEN process_receipt_image(variant_readtext) ELSE <<>>
    /\ ocr_results' = ResultsAtExtraction(request, all_results', standard_readtext)
    /\ deduplicated_results' = DeduplicatedResults(ocr_results')
    /\ response' = process_receipt(request, variant_readtext, standard_readtext)
    /\ record' = IF response'.success
                    THEN extract_receipt_data(ocr_results') ELSE NoRecord
    /\ pc' = "responded"
    /\ UNCHANGED <<request, variant_readtext, standard_readtext, second_record,
                   amount_vars, layout_vars, auth_vars>>

NextReceipt == ProcessReceipt

SpecReceipt == InitReceipt /\ [][NextReceipt]_vars

\* nothing of the receipt service in sight
NoRequest ==
    /\ ocr_results = <<>>
    /\ deduplicated_results = <<>>
    /\ record = NoRecord
    /\ second_record = NoRecord
    /\ receipt_text = <<>>
    /\ parsed_amount = NoAmount
    /\ NoReceipt

\* one call of ReceiptOCR.group_text_blocks
InitGroup ==
    /\ pc = "blocks"
    /\ text_blocks \in BlockLists
    /\ lines = <<>>
    /\ structured = NotCalled
    /\ NoRequest
    /\ NoAuth

GroupTextBlocks ==
    /\ pc = "blocks"
    /\ lines' = group_text_blocks(text_blocks)
    /\ text_blocks' = BlocksAfterGrouping(text_blocks)
    /\ pc' = "grouped"
    /\ UNCHANGED <<structured, extract_vars, amount_vars, receipt_vars, auth_vars>>

NextGroup == GroupTextBlocks

SpecGroup == InitGroup /\ [][NextGroup]_vars

\* one call of ReceiptOCR.extract_structured_data, on an image whose text
\* detection gives text_blocks
InitStructured ==
    /\ pc = "image"
    /\ text_blocks \in BlockLists
    /\ lines = <<>>
    /\ structured = NotCalled
    /\ NoRequest
    /\ NoAuth

ExtractStructuredData ==
    /\ pc = "image"
    /\ lines' = group_text_blocks(text_blocks)
    /\ text_blocks' = BlocksAfterGrouping(text_blocks)
    /\ \E image_quality \in ImageQualities :
          structured' = [outcome |-> "returns",
                         result  |-> extract_structured_data(text_blocks, image_quality)]
    /\ pc' = "structured"
    /\ UNCHANGED <<extract_vars, amount_vars, receipt_vars, auth_vars>>

NextStructured == ExtractStructuredData

SpecStructured == InitStructured /\ [][NextStructured]_vars

\* an AuthenticationManager on an empty users table
InitAuth ==
    /\ pc = "auth"
    /\ NoAuth
    /\ NoLayout
    /\ NoRequest

RegisterUser ==
    /\ pc = "auth"
    /\ Len(users) < MaxUsers
    /\ \E username \in Identifiers, email \in Identifiers,
          password \in Passwords, salt \in Salts :
          /\ users' = register_user(users, username, email, password, salt)
          /\ register_result' = RegisterResult(users, username, email)
    /\ UNCHANGED <<pc, session_store, login_result, extract_vars, amount_vars,
                   receipt_vars, layout_vars>>

Login ==
    /\ pc = "auth"
    /\ \E username_or_email \in Identifiers, password \in Passwords, token \in Tokens :
          /\ login_result' = login(users, username_or_email, password, token)
          /\ session_store' = SessionsAfterLogin(session_store, login_result')
    /\ UNCHANGED <<pc, users, register_result, extract_vars, amount_vars,
                   receipt_vars, layout_vars>>

NextAuth == RegisterUser \/ Login

SpecAuth == InitAuth /\ [][NextAuth]_vars

TypeOK ==
    /\ pc \in {"request", "done", "again", "parse", "parsed", "variants", "fused",
                "received", "responded", "blocks", "grouped", "image",
                "structured", "auth"}
    /\ record.currency \in {"USD", "EUR", "GBP", "JPY", "INR", "UNKNOWN"}
    /\ Len(record.raw_text) = Len(deduplicated_results)

\* ------------------------------------------------------------------------
\* Properties
\* ------------------------------------------------------------------------
Done == pc = "done"

\* the detection list is the single line t
LoneLine(t) == Len(ocr_results) = 1 /\ ocr_results[1].text = t

\* input detection k carries the text and the confidence of kept line i
IsSourceOf(k, i) ==
    /\ Strip(ocr_results[k].text) = deduplicated_results[i].text
    /\ ocr_results[k].confidence = deduplicated_results[i].confidence

\* C1: raw_text holds no two equal strings, and every kept entry has the
\* highest confidence of all input detections with that exact trimmed text.
C1_DedupKeepsHighest ==
    Done =>
      /\ \A i, j \in 1..Len(record.raw_text) :
            i # j => record.raw_text[i] # record.raw_text[j]
      /\ \A i \in 1..Len(record.raw_text) :
            /\ deduplicated_results[i].text = record.raw_text[i]
            /\ \E k \in 1..Len(ocr_results) : IsSourceOf(k, i)
            /\ \A k \in 1..Len(ocr_results) :
                  Strip(ocr_results[k].text) = record.raw_text[i]
                    => ocr_results[k].confidence <= deduplicated_results[i].confidence

\* a text detected twice, the weaker detection first, and kept once
C1_Witness ==
    /\ Done
    /\ \E k, l \in 1..Len(ocr_results) :
          /\ k < l
          /\ Strip(ocr_results[k].text) = Strip(ocr_results[l].text)
          /\ ocr_results[k].text # ocr_results[l].text
          /\ ocr_results[k].confidence < ocr_results[l].confidence
          /\ \E i \in 1..Len(record.raw_text) :
                record.raw_text[i] = Strip(ocr_results[k].text)

\* the first input position of the detection kept as line i
FirstSource(i) ==
    CHOOSE k \in 1..Len(ocr_results) :
        IsSourceOf(k, i) /\ \A l \in 1..(k - 1) : ~IsSourceOf(l, i)

\* C2: raw_text is in non-increasing order of the confidence of the kept
\* detections, and kept detections of equal confidence are in the order in
\* which they first occur in the input.
C2_RankedByConfidence ==
    Done =>
      \A i, j \in 1..Len(record.raw_text) :
        i < j =>
          /\ record.raw_text[i] = deduplicated_results[i].text
          /\ deduplicated_results[i].confidence >= deduplicated_results[j].confidence
          /\ deduplicated_results[i].confidence = deduplicated_results[j].confidence
                => FirstSource(i) < FirstSource(j)

\* an input that is not in rank order, and two kept lines that tie
C2_Witness ==
    /\ Done
    /\ Len(ocr_results) = 3
    /\ ocr_results[1].confidence < ocr_results[2].confidence
    /\ ocr_results[2].confidence = ocr_results[3].confidence
    /\ Len(record.raw_text) = 2
    /\ deduplicated_results[1].confidence = deduplicated_results[2].confidence

\* C3: the title of the returned record is never the empty string.
C3_TitleNeverEmpty == Done => record.title # <<>>

\* two digits, '/', two digits, '/', four digits
IsCanonicalDate(d) ==
    /\ Len(d) = 10
    /\ d[3] = "/" /\ d[6] = "/"
    /\ \A i \in {1, 2, 4, 5, 7, 8, 9, 10} : d[i] \in Digits

\* C4: the returned date is the empty string or has the shape MM/DD/YYYY.
C4_DateCanonicalOrEmpty ==
    Done => record.date = <<>> \/ IsCanonicalDate(record.date)

\* C5: a lone line that is a bare integer in [1900, 2100] never becomes the
\* returned amount.
C5_LoneYearNeverAmount ==
    Done =>
      \A t \in BareIntegers :
        (LoneLine(t) /\ ToInt(t) >= 1900 /\ ToInt(t) <= 2100)
            => record.amount # 100 * ToInt(t)

\* C6: the lone line "Amount: S<n>" gives amount n and currency USD.
C6_AmountSMisread ==
    Done =>
      \A n \in MisreadNumbers :
        LoneLine(AmountSText(n.s))
            => record.amount = n.v /\ record.currency = "USD"

C6_Witness ==
    /\ Done
    /\ LoneLine(AmountSText(<<"9","2">>))
    /\ record.amount = 9200
    /\ record.currency = "USD"

\* the code each currency symbol stands for
SymbolCode ==
    [sym \in CurrencySymbols |->
        CASE sym = "$" -> "USD"
          [] sym = "€" -> "EUR"
          [] sym = "£" -> "GBP"
          [] sym = "¥" -> "JPY"
          [] sym = "₹" -> "INR"]

\* C7: a lone line of a currency symbol and a number v, v >= 1 and not a
\* whole number in [1900, 2100], gives amount v and the code of the symbol.
C7_SymbolAmount ==
    Done =>
      \A sym \in CurrencySymbols, n \in SymbolNumbers :
        ( /\ LoneLine(SymbolText(sym, n.s))
          /\ n.v >= 100
          /\ ~(n.v % 100 = 0 /\ n.v >= 190000 /\ n.v <= 210000) )
            => record.amount = n.v /\ record.currency = SymbolCode[sym]

C7_Witness ==
    /\ Done
    /\ LoneLine(SymbolText("₹", <<"1","2","0","0">>))
    /\ record.amount = 120000
    /\ record.currency = "INR"

\* C8: the lone line "Date: a/b/20yy" with 13 <= a <= 31 and 1 <= b <= 12
\* gives the date bb/aa/20yy.
C8_LabeledDayFirst ==
    Done =>
      \A a \in DayTexts, b \in MonthTexts, y \in YearTexts :
        ( /\ LoneLine(LabeledDateText(a.s, b.s, y))
          /\ a.v >= 13 /\ a.v <= 31
          /\ b.v >= 1 /\ b.v <= 12 )
            => record.date = b.padded \o <<"/">> \o a.padded \o <<"/">> \o y

C8_Witness ==
    /\ Done
    /\ LoneLine(LabeledDateText(<<"1","3">>, <<"3">>, <<"2","0","2","4">>))
    /\ record.date = <<"0","3","/","1","3","/","2","0","2","4">>

ScenarioRecord(r) ==
    /\ r.title = DominosText
    /\ r.date = <<"0","3","/","1","5","/","2","0","2","4">>
    /\ r.amount = 3371
    /\ r.currency = "USD"

\* C9: the three detections of the end-to-end scenario give the title
\* DOMINO'S PIZZA, the date 03/15/2024, the amount 33.71 and USD, under every
\* assignment of distinct confidences.
C9_EndToEnd ==
    Done =>
      \A a, b, c \in Confidences :
        ( /\ a # b /\ a # c /\ b # c
          /\ ocr_results = <<Detection(TotalText, a), Detection(DateText, b),
                             Detection(DominosText, c)>> )
            => ScenarioRecord(record)

C9_Witness ==
    /\ Done
    /\ ocr_results = <<Detection(TotalText, 90), Detection(DateText, 85),
                       Detection(DominosText, 95)>>
    /\ ScenarioRecord(record)

\* the title heuristics, as the extractor applies them to one line
LabelAnchored(text) == Search(TitleLabelPattern, text, TRUE, 1).found

SecondPassLine(text) == Len(text) >= 3 /\ ~HasStructuralKeyword(text)

ProperNoun(text) ==
    \/ Search(TitleProperNounPattern, text, TRUE, 1).found
    \/ SecondPassLine(text) /\ IsProperName(text)

BusinessSuffix(text) == SecondPassLine(text) /\ HasBusinessSuffix(text)

FirstLine(text) == SecondPassLine(text) /\ IsFirstLineCandidate(text)

NoTitleHeuristic(text) ==
    ~LabelAnchored(text) /\ ~ProperNoun(text) /\ ~BusinessSuffix(text)
        /\ ~FirstLine(text)

NothingToName ==
    \A i \in 1..Len(deduplicated_results) :
        /\ NoTitleHeuristic(deduplicated_results[i].text)
        /\ (Len(deduplicated_results[i].text) < 3
              \/ IsDigitStr(deduplicated_results[i].text))

\* C10: when no title heuristic matches any line and no line of length >= 3
\* is non-numeric, the title is "Untitled Receipt".
C10_UntitledFallback == (Done /\ NothingToName) => record.title = UntitledReceipt

C10_Witness ==
    /\ Done
    /\ Len(deduplicated_results) >= 2
    /\ NothingToName
    /\ record.title = UntitledReceipt

EmptyListRecord ==
    [title |-> UntitledReceipt, date |-> <<>>, amount |-> 0,
     currency |-> "UNKNOWN", raw_text |-> <<>>]

\* a record with every field of its kind
IsRecord(r) ==
    /\ DOMAIN r = {"title", "date", "amount", "currency", "raw_text"}
    /\ r.title \in Seq(WordChars \cup Whitespace \cup CurrencySymbols
                         \cup {":", ".", ",", "-", "/", "'", "&"})
    /\ r.date \in Seq(Digits \cup {"/"})
    /\ r.amount \in Nat
    /\ r.currency \in {"USD", "EUR", "GBP", "JPY", "INR", "UNKNOWN"}
    /\ \A i \in 1..Len(r.raw_text) : Len(r.raw_text[i]) >= 2

\* C12: from every detection list the run ends and returns a record; for
\* the empty list it is Untitled Receipt, "", 0, UNKNOWN, [].
C12_AlwaysARecord ==
    /\ Done => IsRecord(record)
    /\ (Done /\ ocr_results = <<>>) => record = EmptyListRecord

\* the empty list went through the run
C12_Witness == Done /\ ocr_results = <<>> /\ record = EmptyListRecord

\* the lines of the text, as the first two loops read them
LoweredLines == [i \in 1..Len(SplitLines(receipt_text)) |->
                    Strip(Lower(SplitLines(receipt_text)[i]))]

\* the lines that carry the words
LinesWith(words) == {i \in 1..Len(LoweredLines) : HasWords(LoweredLines[i], words)}

\* the lines that carry the words and an amount
AmountLinesWith(words) == {i \in LinesWith(words) : FindAmounts(LoweredLines[i]) # <<>>}

\* the last amount on the first line of a set of lines
LastOnFirst(ls) == LastAmount(FindAmounts(LoweredLines[FirstPosition(ls)]))

\* C13: parse_amount returns the last amount on the first line with 'total'
\* and 'amount' on which an amount is found; else the last amount on the
\* first line with 'subtotal' on which an amount is found; else the largest
\* amount v with 0 < v < 1,000,000 of any line, and None when there is none.
\* 'Total: $123.45' gives 123.45 and 'No amount here' gives None.
C13_ThreeStepPriority ==
    pc = "parsed" =>
      /\ IF AmountLinesWith({TotalWord, AmountWord}) # {}
         THEN parsed_amount = LastOnFirst(AmountLinesWith({TotalWord, AmountWord}))
         ELSE IF AmountLinesWith({SubtotalWord}) # {}
         THEN parsed_amount = LastOnFirst(AmountLinesWith({SubtotalWord}))
         ELSE parsed_amount = LargestAmount(AnyAmounts(SplitLines(receipt_text)))
      /\ receipt_text = <<"T","o","t","a","l",":"," ","$","1","2","3",".","4","5">>
            => parsed_amount = [found |-> TRUE, value |-> 12345]
      /\ receipt_text = <<"N","o"," ","a","m","o","u","n","t"," ","h","e","r","e">>
            => parsed_amount = NoAmount

\* a line with both words and no amount comes first, a subtotal line second
C13_Witness ==
    /\ pc = "parsed"
    /\ Len(SplitLines(receipt_text)) = 2
    /\ 1 \in LinesWith({TotalWord, AmountWord})
    /\ 1 \notin AmountLinesWith({TotalWord, AmountWord})
    /\ 2 \in AmountLinesWith({SubtotalWord})
    /\ parsed_amount = [found |-> TRUE, value |-> 123456]

\* C13 as stated: the first line with 'total' and 'amount' decides whenever
\* there is one; else the first line with 'subtotal' whenever there is one
C13_FirstLabelledLineDecides ==
    pc = "parsed" =>
      IF LinesWith({TotalWord, AmountWord}) # {}
      THEN /\ parsed_amount.found
           /\ parsed_amount = LastOnFirst(LinesWith({TotalWord, AmountWord}))
      ELSE IF LinesWith({SubtotalWord}) # {}
      THEN /\ parsed_amount.found
           /\ parsed_amount = LastOnFirst(LinesWith({SubtotalWord}))
      ELSE parsed_amount = LargestAmount(AnyAmounts(SplitLines(receipt_text)))

\* the entries of all_results that carry the tag of variant name
TaggedWith(name) == SelectSeq(all_results, LAMBDA res : res.variant = name)

\* the position of a variant in the enumeration
VariantIndex(name) == CHOOSE k \in 1..Len(VariantNames) : VariantNames[k] = name

\* the readings of a variant's run that lie above the floor
AboveFloor(name) ==
    SelectSeq(variant_readtext[name].results, LAMBDA res : res.confidence > 20)

\* C15: whichever variants raise, process_receipt_image returns: nothing of
\* a variant that raised; of every other variant its readings above 0.2, in
\* their order, tagged with its name; the variants in enumeration order.
C15_FailuresIsolated ==
    pc = "fused" =>
      /\ \A i \in 1..Len(all_results) : all_results[i].variant \in VariantSet
      /\ \A name \in VariantSet :
            IF variant_readtext[name].raises THEN TaggedWith(name) = <<>>
            ELSE /\ Len(TaggedWith(name)) = Len(AboveFloor(name))
                 /\ \A i \in 1..Len(AboveFloor(name)) :
                       /\ TaggedWith(name)[i].text = AboveFloor(name)[i].text
                       /\ TaggedWith(name)[i].confidence = AboveFloor(name)[i].confidence
      /\ \A i, j \in 1..Len(all_results) :
            i < j => VariantIndex(all_results[i].variant)
                        <= VariantIndex(all_results[j].variant)

\* binary and enhanced raise, adaptive and denoised each return one reading
\* above the floor
C15_Witness ==
    /\ pc = "fused"
    /\ variant_readtext["binary"].raises
    /\ variant_readtext["enhanced"].raises
    /\ Len(all_results) = 2
    /\ all_results[1].variant = "adaptive"
    /\ all_results[2].variant = "denoised"

\* C14: every detection the handler hands to extract_receipt_data has a
\* confidence of at least 0.2, on the variants' path and on the fallback's.
C14_HandedAboveFloor ==
    (pc = "responded" /\ response.success) =>
       \A i \in 1..Len(ocr_results) : ocr_results[i].confidence >= 20

\* C16: for a decoded image whose detector runs return, the answer is 'No
\* text detected in the image' whenever no detection survives the fusion,
\* and a success only when one does.
C16_NoTextWhenNothingSurvives ==
    (pc = "responded" /\ request = "image" /\ response.status # 500) =>
       /\ deduplicated_results = <<>> =>
             /\ ~response.success
             /\ response.error = "No text detected in the image"
       /\ response.success => deduplicated_results # <<>>

\* the titles the label pattern gives on the lines of the fused list
LabelTitles ==
    {t \in {TitleFromMatch(Search(TitleLabelPattern, deduplicated_results[i].text, TRUE, 1)) :
                i \in 1..Len(deduplicated_results)} : t.found}

\* C17: when some line matches the label pattern with an accepted capture,
\* the title is such a capture, whatever the rank of the line.
C17_LabelTierFirst ==
    (Done /\ LabelTitles # {}) => \E t \in LabelTitles : record.title = t.value

\* the date of the lone line a/b/y at the confidence of the given line
BareLineDate(a, b, y) ==
    extract_date_enhanced(DeduplicatedResults(
        <<Detection(BareDateText(a, b, y), ocr_results[1].confidence)>>))

\* C18: the lone line 'Date: a/b/20yy' gives the date the lone line
\* 'a/b/20yy' gives.
C18_LabelIrrelevant ==
    Done =>
      \A a \in DayTexts, b \in MonthTexts, y \in YearTexts :
          LoneLine(LabeledDateText(a.s, b.s, y)) => record.date = BareLineDate(a.s, b.s, y)

\* the first D/M/20YY of line i, when the line also has the token 'date'
LabelledMatch(i) ==
    IF Contains(Lower(deduplicated_results[i].text), <<"d","a","t","e">>)
    THEN Search(DayMonthYear20Pattern, deduplicated_results[i].text, FALSE, 3)
    ELSE NoMatch

\* the two readings of a D/M/20YY match
Readings(m) ==
    { FormatDate(m.groups[2], m.groups[1], m.groups[3]),
      FormatDate(m.groups[1], m.groups[2], m.groups[3]) }

\* C19: when some line has the token 'date' and a D/M/20YY, the date is
\* read from such a line, also when a bare D/M/20YY is ranked above it.
C19_LabelledDateFirst ==
    (Done /\ \E i \in 1..Len(deduplicated_results) : LabelledMatch(i).found) =>
       \E i \in 1..Len(deduplicated_results) :
          LabelledMatch(i).found /\ record.date \in Readings(LabelledMatch(i))

\* no line has a D/M/20YY: the checks before the pattern table find nothing
TableReached ==
    \A i \in 1..Len(deduplicated_results) :
        ~Search(DayMonthYear20Pattern, deduplicated_results[i].text, FALSE, 3).found

\* step n of the table with the patterns in table order and, for each
\* pattern, the lines in rank order
PatternFirstStep(n) ==
    TablePatternDate(
        deduplicated_results[((n - 1) % Len(deduplicated_results)) + 1].text,
        date_patterns[((n - 1) \div Len(deduplicated_results)) + 1])

PatternFirstHits ==
    {n \in 1..(Len(deduplicated_results) * Len(date_patterns)) : PatternFirstStep(n).found}

\* C20: in the pattern table the first pattern with a match on any line
\* gives the date, from the first line it matches.
C20_PatternPriorityFirst ==
    (Done /\ TableReached /\ PatternFirstHits # {}) =>
       record.date = PatternFirstStep(FirstPosition(PatternFirstHits)).value

\* C21: the lone line YYYY-MM-DD gives MM/DD/YYYY with the same year,
\* month and day.
C21_IsoDateKept ==
    Done =>
      \A iso \in IsoDates :
          LoneLine(IsoText(iso)) => record.date = FormatDate(iso.m, iso.d, iso.y)

\* C22: a whole number in [1900, 2100] on a line with a monetary keyword is
\* kept as a candidate: the lone line 'Total: 2000' gives the amount 2000.
C22_KeywordYearKept ==
    (Done /\ LoneLine(<<"T","o","t","a","l",":"," ","2","0","0","0">>))
        => record.amount = 200000

\* amount_candidates when the selection starts
SurvivingCandidates ==
    AmountCandidates(MisreadCandidates(deduplicated_results, 1), deduplicated_results,
                     1, Len(deduplicated_results) * Len(currency_patterns))

\* the candidates whose line holds the word, with a score of at least 0.7
LabelledPlaces(cands, word) ==
    {j \in 1..Len(cands) : Contains(Lower(cands[j].text), word) /\ cands[j].confidence >= 700}

\* the preferred level: 'total', else 'amount', else every candidate
PreferredPlaces(cands) ==
    IF LabelledPlaces(cands, TotalWord) # {} THEN LabelledPlaces(cands, TotalWord)
    ELSE IF LabelledPlaces(cands, AmountWord) # {} THEN LabelledPlaces(cands, AmountWord)
    ELSE 1..Len(cands)

\* the highest score among the places, the first inserted among equals
TopPlace(cands, places) ==
    CHOOSE j \in places :
        \A k \in places :
            \/ cands[k].confidence < cands[j].confidence
            \/ cands[k].confidence = cands[j].confidence /\ j <= k

Selects(cands, j) ==
    record.amount = cands[j].amount /\ record.currency = cands[j].currency

RecordFromPreferred(cands) == Selects(cands, TopPlace(cands, PreferredPlaces(cands)))

\* C23: among the surviving candidates the highest-scoring one on a 'total'
\* line with score >= 0.7 is returned; if there is none, the highest-scoring
\* one on an 'amount' line with score >= 0.7; if there is none, the
\* highest-scoring one; among equal scores the one inserted first.
C23_SelectionPreference ==
    (Done /\ SurvivingCandidates # <<>>) => RecordFromPreferred(SurvivingCandidates)

\* a 'total' candidate is returned although another candidate scores higher
TotalBeatsHigher(cands) ==
    \E j, k \in 1..Len(cands) :
        /\ j \in LabelledPlaces(cands, TotalWord)
        /\ Selects(cands, j)
        /\ ~Contains(Lower(cands[k].text), TotalWord)
        /\ cands[k].confidence > cands[j].confidence
        /\ cands[k].amount # cands[j].amount

C23_Witness == Done /\ Len(deduplicated_results) = 2 /\ TotalBeatsHigher(SurvivingCandidates)

\* the candidate one match stands for, before the filters and the merge
RawCandidate(text, score, groups, numFirst) ==
    Candidate(ParseAmount(AmountGroup(groups, numFirst)), text, score,
              IndicatorGroup(groups, numFirst))

RawOfMatches(text, score, ms) ==
    {RawCandidate(text, score, ms[j].groups, Match(D, ms[j].groups[1], FALSE, 0).found) :
        j \in 1..Len(ms)}

RawOfLine(text) ==
    UNION {RawOfMatches(text, currency_patterns[p].score,
                        FindIter(currency_patterns[p].re, text, TRUE,
                                 currency_patterns[p].ng)) :
              p \in 1..Len(currency_patterns)}

Range(seq) == {seq[j] : j \in 1..Len(seq)}

\* every candidate the two passes produce and do not skip
RawCandidates ==
    Range(MisreadCandidates(deduplicated_results, 1))
      \cup {c \in UNION {RawOfLine(deduplicated_results[i].text) :
                            i \in 1..Len(deduplicated_results)} :
              ~Skipped(c.amount, c.text)}

\* every surviving candidate is, in score, text and currency, one of the
\* highest-scoring candidates of its amount
SurvivorsAreHighest(cands, raw) ==
    \A j \in 1..Len(cands) :
        /\ cands[j] \in raw
        /\ \A r \in raw : r.amount = cands[j].amount => r.confidence <= cands[j].confidence

\* C24: after the merge of candidates of the same amount, the survivor has
\* the score, the source text and the currency of the higher-scoring one.
C24_MergeKeepsHigher ==
    Done => SurvivorsAreHighest(SurvivingCandidates, RawCandidates)

\* lone lines with an amount next to a symbol or a word of the table, the
\* amount and the code the table gives
ExplicitCurrencyLines ==
    { [s |-> <<"T","o","t","a","l"," ","4","5",",","5","0"," ","€">>, v |-> 4550, code |-> "EUR"],
      [s |-> <<"A","m","o","u","n","t"," ","R","s","."," ","5","0","0">>, v |-> 50000, code |-> "INR"],
      [s |-> <<"r","s"," ","2","0">>, v |-> 2000, code |-> "INR"] }

\* C25: when the selected amount stands next to a symbol or word of the
\* table on a line without the S-misread pattern, the currency is the code
\* the table gives for it.
C25_ExplicitCurrencyWins ==
    Done =>
      \A e \in ExplicitCurrencyLines :
          (LoneLine(e.s) /\ record.amount = e.v) => record.currency = e.code

\* lone lines '<label>: <i>.<dd>' and their value in hundredths
LabelledDecimalLines ==
    { [s |-> <<"T","o","t","a","l",":"," ","3","3",".","7","1">>, v |-> 3371],
      [s |-> <<"A","m","o","u","n","t",":"," ","1","2",".","3","4">>, v |-> 1234] }

\* C26: the lone line 'Total: i.dd' or 'Amount: i.dd' gives the amount i.dd.
C26_LabelledDecimalKept ==
    Done => \A e \in LabelledDecimalLines : LoneLine(e.s) => record.amount = e.v

NoSpaceRun(s) == \A i \in 1..(Len(s) - 1) : ~(s[i] \in Whitespace /\ s[i + 1] \in Whitespace)

\* C27: the normalized text of every line has no run of two or more
\* whitespace characters, and normalizing it again changes nothing.
C27_NormalizeIdempotent ==
    Done =>
      \A i \in 1..Len(deduplicated_results) :
          /\ NoSpaceRun(deduplicated_results[i].normalized_text)
          /\ normalize_text(deduplicated_results[i].normalized_text)
                = deduplicated_results[i].normalized_text

Grouped == pc = "grouped"

\* the blocks of the lines, line after line
RECURSIVE Flatten(_)
Flatten(ls) == IF ls = <<>> THEN <<>> ELSE ls[1] \o Flatten(Tail(ls))

Occurrences(blocks, b) == Cardinality({i \in 1..Len(blocks) : blocks[i] = b})

\* every block is on exactly one line, and no line is empty
LinesPartitionBlocks ==
    /\ \A k \in 1..Len(lines) : lines[k] # <<>>
    /\ Len(Flatten(lines)) = Len(text_blocks)
    /\ \A b \in Blocks : Occurrences(Flatten(lines), b) = Occurrences(text_blocks, b)

InX1Order(line) ==
    \A i \in 1..(Len(line) - 1) : line[i].position.x1 <= line[i + 1].position.x1

\* taken from top to bottom, each block is at most the threshold below the
\* block before it
IsChain(line) ==
    \A i \in 1..(Len(line) - 1) :
        SortByY1(line)[i + 1].position.y1 - SortByY1(line)[i].position.y1 <= y_threshold

Top(line) == SortByY1(line)[1].position.y1

Bottom(line) == SortByY1(line)[Len(line)].position.y1

FarApartOnOneLine ==
    \E k \in 1..Len(lines) : Bottom(lines[k]) - Top(lines[k]) > y_threshold

\* C28 (as amended): the lines partition the blocks; on a line each block,
\* taken from top to bottom, is at most 10 pixels below the block before
\* it; a line starts more than 10 pixels below the end of the line before;
\* each line is in non-decreasing x1 order.
C28_LinesAreChains ==
    Grouped =>
      /\ LinesPartitionBlocks
      /\ \A k \in 1..Len(lines) : IsChain(lines[k]) /\ InX1Order(lines[k])
      /\ \A k \in 1..(Len(lines) - 1) :
            Top(lines[k + 1]) - Bottom(lines[k]) > y_threshold

\* a line of three blocks whose top and bottom are more than 10 pixels apart
C28_Witness ==
    /\ Grouped
    /\ Len(lines) = 1
    /\ Len(lines[1]) = 3
    /\ FarApartOnOneLine
    /\ lines[1] # text_blocks

\* C28 (as stated): the lines partition the blocks, any two blocks of a
\* line have y1 within 10 pixels of each other, and each line is in
\* non-decreasing x1 order.
C28_AnyTwoWithinTolerance ==
    Grouped =>
      /\ LinesPartitionBlocks
      /\ \A k \in 1..Len(lines) :
            /\ InX1Order(lines[k])
            /\ \A i, j \in 1..Len(lines[k]) :
                  Abs(lines[k][i].position.y1 - lines[k][j].position.y1) <= y_threshold

Structured == pc = "structured"

StructuredEntries ==
    {"merchant", "date", "total", "tax", "language", "processing_metadata"}

\* C29: when the text detection returned blocks, the record returned has
\* the entries merchant, date, total and tax, each with value and
\* confidence, language and processing_metadata.extraction_confidence; it
\* is not the empty record.
C29_RecordShapeKept ==
    (Structured /\ text_blocks # <<>>) =>
      /\ structured.result # EmptyDict
      /\ StructuredEntries \subseteq DOMAIN structured.result
      /\ \A f \in {"merchant", "date", "total", "tax"} :
            {"value", "confidence"} \subseteq DOMAIN structured.result[f]
      /\ "extraction_confidence" \in DOMAIN structured.result.processing_metadata

LoggedIn == login_result.outcome = "returns" /\ login_result.success

\* C30: after registrations, login never raises: it returns a dict with a
\* boolean 'success'; a step changes session_store only when it is a login
\* that returned success.
C30_LoginNeverRaises ==
    /\ [](login_result.outcome # "raises")
    /\ [](login_result.outcome = "returns" => login_result.success \in BOOLEAN)
    /\ [][session_store' # session_store => LoggedIn']_vars

====
